---- MODULE Spec2Model ----
(***************************************************************************)
(* A model of the "ort" three-way tree merge engine (merge-ort.c): the     *)
(* collector (collect_merge_info), the rename engine                       *)
(* (detect_and_process_renames), the resolver and tree builder             *)
(* (process_entries), and the orchestration of one or more merges on one   *)
(* engine instance (merge_incore_nonrecursive).                            *)
(*                                                                         *)
(* Strings are sequences of one-character strings, compared byte-wise.     *)
(* Object ids are content addresses: a blob id carries the blob's content  *)
(* number, a tree id carries the serialized entries of the tree.           *)
(***************************************************************************)
EXTENDS Integers, Sequences, FiniteSets, TLC

VARIABLES
    pc,       \* position of the caller / engine: idle, collect, renames, process_renames, entries
    args,     \* the trees of the merge in progress: [base, side1, side2]
    options,  \* merge_options: branch labels, detect_directory_renames, renormalize
    priv,     \* merge_options_internal: paths, unmerged, output, renames (engine state)
    renaming, \* detect_and_process_renames in progress: the combined queue and its clean flag
    result,   \* merge_result: [tree, clean, priv, initialized]
    env,      \* outcomes of the external collaborators for this merge
    nmerges,  \* number of merges started on this engine instance
    collections, \* number of times the merge in progress ran collect_merge_info
    caller    \* the pick loop of fast-rebase: its picks, and which of opt->priv,
              \* result->_properly_initialized are set

vars == <<pc, args, options, priv, renaming, result, env, nmerges, collections, caller>>

----------------------------------------------------------------------------
(* Bytes and strings *)

\* The byte value of a character (ASCII order of the characters used).
Ord(c) ==
    CASE c = "." -> 46 [] c = "/" -> 47 [] c = "0" -> 48 [] c = "1" -> 49
      [] c = "2" -> 50 [] c = "A" -> 65 [] c = "B" -> 66 [] c = "_" -> 95
      [] c = "a" -> 97 [] c = "b" -> 98 [] c = "c" -> 99 [] c = "d" -> 100
      [] c = "f" -> 102 [] c = "g" -> 103 [] c = "n" -> 110 [] c = "o" -> 111
      [] c = "t" -> 116 [] c = "x" -> 120 [] c = "y" -> 121 [] c = "~" -> 126

\* Length of the longest common prefix of two strings.
RECURSIVE CommonPrefixLen(_, _, _)
CommonPrefixLen(a, b, i) ==
    IF i < Len(a) /\ i < Len(b) /\ a[i + 1] = b[i + 1]
    THEN CommonPrefixLen(a, b, i + 1)
    ELSE i

\* strcmp(a, b): negative, zero or positive; the terminator is byte 0.
StrCmp(a, b) ==
    LET Byte(s, i) == IF i < Len(s) THEN Ord(s[i + 1]) ELSE 0
        Diff(c) == c[1] - c[2]
        At(i) == Diff([k \in 1..2 |-> Byte(IF k = 1 THEN a ELSE b, i)])
    IN At(CommonPrefixLen(a, b, 0))

\* strncmp(a, b, n) == 0
StrNEq(a, b, n) ==
    LET i == CommonPrefixLen(a, b, 0)
    IN i >= n \/ (i = Len(a) /\ i = Len(b))

\* strrchr(p, '/'): index of the last '/', 0 when there is none.
RECURSIVE LastSlash(_, _)
LastSlash(p, i) ==
    IF i = 0 THEN 0
    ELSE IF p[i] = "/" THEN i ELSE LastSlash(p, i - 1)

HasSlash(p) == LastSlash(p, Len(p)) > 0
DirOf(p) == SubSeq(p, 1, LastSlash(p, Len(p)) - 1)
BaseOf(p) == SubSeq(p, LastSlash(p, Len(p)) + 1, Len(p))

\* strchr(p, '/'): index of the first '/', Len(p)+1 when there is none.
RECURSIVE FirstSlash(_, _)
FirstSlash(p, i) ==
    IF i > Len(p) THEN i
    ELSE IF p[i] = "/" THEN i ELSE FirstSlash(p, i + 1)

Range(s) == {s[i] : i \in 1..Len(s)}

\* The pairs of elements of a sequence, of which a comparator selects the
\* pairs <<x, y>> where x sorts before y.
Pairs(s) == Range(s) \X Range(s)

\* Sort a sequence by a comparator, given as the set of the pairs <<x, y>>
\* where x sorts before y, by insertion.
SortBy(s, before) ==
    LET RECURSIVE Ins(_, _)
        Ins(x, t) ==
            IF t = <<>> THEN <<x>>
            ELSE IF <<x, Head(t)>> \in before THEN <<x>> \o t
            ELSE <<Head(t)>> \o Ins(x, Tail(t))
        RECURSIVE Srt(_)
        Srt(t) == IF t = <<>> THEN <<>> ELSE Ins(Head(t), Srt(Tail(t)))
    IN Srt(s)

RECURSIVE SetToSeq(_)
SetToSeq(S) ==
    IF S = {} THEN <<>>
    ELSE LET x == CHOOSE y \in S : TRUE IN <<x>> \o SetToSeq(S \ {x})

StrBefore(a, b) == StrCmp(a, b) < 0

\* The keys of a string map in byte order (a deterministic iteration order).
SortedKeys(S) == SortBy(SetToSeq(S), {p \in S \X S : StrBefore(p[1], p[2])})

----------------------------------------------------------------------------
(* Three-bit masks *)

Bit(m, i) == (m \div (2 ^ i)) % 2
BitAnd(a, b) == Bit(a, 0) * Bit(b, 0) + 2 * Bit(a, 1) * Bit(b, 1) + 4 * Bit(a, 2) * Bit(b, 2)
BitOr(a, b) == a + b - BitAnd(a, b)
\* A faulty complement: the mask itself.
BitNot_same(a) == a

BitNot(a) == 7 - a

----------------------------------------------------------------------------
(* Modes, object ids, trees *)

S_IFDIR == 16384     \* 0040000
ModeReg == 33188     \* 0100644
ModeLnk == 40960     \* 0120000
ModeSub == 57344     \* 0160000

\* S_IFMT & mode
FileType(mode) == (mode \div 4096) * 4096
S_ISREG(mode) == FileType(mode) = 32768
S_ISLNK(mode) == FileType(mode) = 40960
S_ISGITLINK(mode) == FileType(mode) = 57344

null_oid == [kind |-> "null", blob |-> 0, ents |-> <<>>]
BlobOid(n) == [kind |-> "blob", blob |-> n, ents |-> <<>>]
\* write_object_file(tree_type): the id of a tree is its serialization.
TreeOid(ents) == [kind |-> "tree", blob |-> 0, ents |-> ents]
empty_tree == TreeOid(<<>>)

NullVersion == [oid |-> null_oid, mode |-> 0]

\* A tree entry: name, mode and object id.  A tree object holds its entries
\* in the canonical order of the object store, where a directory sorts as
\* though its name ended in '/'.
CanonKey(e) == IF e.mode = S_IFDIR THEN e.name \o <<"/">> ELSE e.name
CanonBefore(e1, e2) == StrCmp(CanonKey(e1), CanonKey(e2)) < 0

\* The canonical tree holding a set of files [path, mode, blob].
RECURSIVE MkEnts(_)
MkEnts(files) ==
    LET First(f) == SubSeq(f.path, 1, FirstSlash(f.path, 1) - 1)
        names == {First(f) : f \in files}
        Under(n) == {[f EXCEPT !.path = SubSeq(f.path, Len(n) + 2, Len(f.path))] :
                        f \in {g \in files : First(g) = n /\ g.path # n}}
        Entry(n) ==
            IF \E f \in files : f.path = n
            THEN LET f == CHOOSE g \in files : g.path = n
                 IN [name |-> n, mode |-> f.mode, oid |-> BlobOid(f.blob)]
            ELSE [name |-> n, mode |-> S_IFDIR, oid |-> TreeOid(MkEnts(Under(n)))]
        ents == SetToSeq({Entry(n) : n \in names})
    IN SortBy(ents, {p \in Pairs(ents) : CanonBefore(p[1], p[2])})

MkTree(files) == TreeOid(MkEnts(files))

\* The set of files [path, mode, blob] a tree object holds, by full path.
RECURSIVE FilesOf(_, _)
FilesOf(tree, dir) ==
    UNION { LET e == tree.ents[i]
                p == IF dir = <<>> THEN e.name ELSE dir \o <<"/">> \o e.name
            IN IF e.mode = S_IFDIR THEN FilesOf(e.oid, p)
               ELSE {[path |-> p, mode |-> e.mode, blob |-> e.oid.blob]}
          : i \in 1..Len(tree.ents) }

----------------------------------------------------------------------------
(* String maps (strmap, strintmap, strset) *)

strmap_put(m, k, v) == [x \in (DOMAIN m) \cup {k} |-> IF x = k THEN v ELSE m[x]]
strmap_remove(m, k) == [x \in (DOMAIN m) \ {k} |-> m[x]]
strmap_contains(m, k) == k \in DOMAIN m
strintmap_get(m, k, default) == IF k \in DOMAIN m THEN m[k] ELSE default

RELEVANT_CONTENT == 1
RELEVANT_LOCATION == 2

\* A pointer to a string: the string and the identity of its allocation.
\* toplevel_dir is the one empty string every top-level record points to.
StrPtr(str, id) == [str |-> str, id |-> id]
toplevel_dir == StrPtr(<<>>, 0)

----------------------------------------------------------------------------
(* Engine state: merge_options_internal and rename_info *)

\* The state merge_start() allocates for a first merge.
FreshRenames ==
    [pairs |-> << <<>>, <<>> >>,
     relevant_sources |-> << <<>>, <<>> >>,
     dirs_removed |-> << <<>>, <<>> >>,
     dir_rename_count |-> << <<>>, <<>> >>,
     dir_renames |-> << <<>>, <<>> >>,        \* what get_directory_renames() returned
     possible_trivial_merges |-> << <<>>, <<>> >>,
     target_dirs |-> << {}, {} >>,
     trivial_merges_okay |-> <<TRUE, TRUE>>,
     dir_rename_mask |-> 0,
     merge_trees |-> <<null_oid, null_oid, null_oid>>,
     cached_pairs_valid_side |-> 0,
     cached_pairs |-> << <<>>, <<>> >>,
     cached_irrelevant |-> << {}, {} >>,
     cached_target_names |-> << {}, {} >>,
     redo_after_renames |-> 0,
     reused_side |-> 0]         \* history: cached_pairs_valid_side as merge_start() found it

FreshPriv ==
    [paths |-> <<>>,
     keys |-> <<>>,             \* the interned key string of each PATH MAP entry
     unmerged |-> <<>>,
     output |-> <<>>,
     current_dir_name |-> toplevel_dir,
     renames |-> FreshRenames,
     nalloc |-> 0,              \* allocations made so far (strings, records)
     masks |-> {},              \* history: the values of dir_rename_mask the collection in
                                \* progress has seen at its visits, callbacks and wrappers
     walk |-> <<>>,             \* history: what the resolver iteration in progress did, in
                                \* order (entries processed, directories closed, the end)
     failed |-> <<>>]           \* assertions / BUG()s that fired, in order

Fail(s, what) == [s EXCEPT !.failed = Append(@, what)]

\* The open directories of a directory_versions: names and offsets.
OpenDirs(offsets) == [i \in 1..Len(offsets) |-> <<offsets[i].string.str, offsets[i].util>>]

\* The history of the resolver iteration with one more step: what happened,
\* at which path, whether a tree was written, the names it holds, and the
\* open directories.
WalkStep(s, what, path, wrote, names, offsets) ==
    [s EXCEPT !.walk = Append(@, [what |-> what, path |-> path, wrote |-> wrote,
                                  names |-> names, open |-> OpenDirs(offsets)])]

\* The history of dir_rename_mask with one more observation.
Seen(s, what) == [s EXCEPT !.masks = @ \cup {what}]

\* A conflict_info; a resolved record is a merged_info, whose conflict
\* fields do not exist and are kept zero here.
ZeroInfo ==
    [addr |-> 0, result |-> NullVersion, is_null |-> FALSE, clean |-> FALSE,
     basename_offset |-> 0, directory_name |-> toplevel_dir,
     stages |-> <<NullVersion, NullVersion, NullVersion>>,
     pathnames |-> << <<>>, <<>>, <<>> >>,
     df_conflict |-> FALSE, path_conflict |-> FALSE,
     filemask |-> 0, dirmask |-> 0, match_mask |-> 0]

\* strmap_put(&opt->priv->paths, key, ci): an existing entry keeps its key.
PutPath(s, keyptr, ci) ==
    [s EXCEPT !.paths = strmap_put(@, keyptr.str, ci),
              !.keys = IF keyptr.str \in DOMAIN @ THEN @
                       ELSE strmap_put(@, keyptr.str, keyptr)]

RemovePath(s, path) ==
    [s EXCEPT !.paths = strmap_remove(@, path), !.keys = strmap_remove(@, path)]

----------------------------------------------------------------------------
(* Collector: per-entry bookkeeping *)

setup_path_info(s, current_dir_name, current_dir_name_len, fullpath, names, merged_version, is_null, df_conflict, filemask, dirmask, resolved) ==
    LET base == [ZeroInfo EXCEPT !.addr = s.nalloc + 1,
                                 !.directory_name = current_dir_name,
                                 !.basename_offset = current_dir_name_len,
                                 !.clean = resolved]
        path_info ==
            IF resolved
            THEN [base EXCEPT !.result = merged_version, !.is_null = is_null]
            ELSE [base EXCEPT !.pathnames = <<fullpath.str, fullpath.str, fullpath.str>>,
                              !.stages = names,
                              !.filemask = filemask,
                              !.dirmask = dirmask,
                              !.df_conflict = df_conflict]
    IN PutPath([s EXCEPT !.nalloc = @ + 1], fullpath, path_info)

\* A diff_filespec and a queued diff_filepair.
Filespec(path, v) == [path |-> path, oid |-> v.oid, mode |-> v.mode]
NoTarget == <<"\\0">>  \* stands for a NULL char* (no string of the model is equal to it)

add_pair(s, names, pathname, side, is_add, match_mask, dir_rename_mask) ==
    LET r == s.renames
        names_idx == IF is_add THEN side ELSE 0
        queued ==
            [one |-> Filespec(pathname, IF is_add THEN NullVersion ELSE names[names_idx + 1]),
             two |-> Filespec(pathname, IF is_add THEN names[names_idx + 1] ELSE NullVersion),
             status |-> "", score |-> 0]
        Queue(t) == [t EXCEPT !.renames.pairs[side] = Append(@, queued)]
    IN IF is_add
       THEN IF pathname \in r.cached_target_names[side] THEN s ELSE Queue(s)
       ELSE LET content_relevant == (match_mask = 0)
                location_relevant == (dir_rename_mask = 7)
                s1 == IF content_relevant
                      THEN [s EXCEPT !.renames.cached_irrelevant[side] = @ \ {pathname}]
                      ELSE s
                s2 == IF content_relevant \/ location_relevant
                      THEN [s1 EXCEPT !.renames.relevant_sources[side] =
                                strmap_put(@, pathname,
                                           IF content_relevant THEN RELEVANT_CONTENT
                                           ELSE RELEVANT_LOCATION)]
                      ELSE s1
            IN IF strmap_contains(s2.renames.cached_pairs[side], pathname)
                  \/ pathname \in s2.renames.cached_irrelevant[side]
               THEN s2
               ELSE Queue(s2)

collect_rename_info(s, names, dirname, fullname, filemask, dirmask, match_mask) ==
    LET upd == s.renames.dir_rename_mask # 7 /\ dirmask \in {3, 5}
        sides == IF dirmask \in {1, 3, 5} THEN (7 - dirmask) \div 2 ELSE 0
        \* s1: dir_rename_mask is updated
        \* dirs_removed[i] with the directory fullname, and with the directory
        \* of a file that only the other side has
        Removed(s1, drd) ==
            [s1 EXCEPT !.renames.dirs_removed =
                [i \in 1..2 |->
                    LET d == IF Bit(sides, i - 1) = 1 THEN strmap_put(@[i], fullname, drd)
                             ELSE @[i]
                    IN IF s1.renames.dir_rename_mask = 7 /\ filemask \in {2, 4}
                          /\ i = 3 - (filemask \div 2)
                       THEN strmap_put(d, dirname, 2) ELSE d]]
        RECURSIVE Sides(_, _)
        Sides(t, side) ==
            IF side > 2 THEN t
            ELSE Sides(IF Bit(filemask, 0) = 1 /\ Bit(filemask, side) = 0
                       THEN add_pair(t, names, fullname, side, FALSE,
                                     BitAnd(match_mask, filemask), t.renames.dir_rename_mask)
                       ELSE IF Bit(filemask, 0) = 0 /\ Bit(filemask, side) = 1
                       THEN add_pair(t, names, fullname, side, TRUE,
                                     BitAnd(match_mask, filemask), t.renames.dir_rename_mask)
                       ELSE t,
                       side + 1)
        Masked(s1) ==
            IF filemask \in {0, 7}
            THEN Removed(s1, IF s1.renames.dir_rename_mask = 7 THEN 1 ELSE 0)
            ELSE Sides(Removed(s1, IF s1.renames.dir_rename_mask = 7 THEN 1 ELSE 0), 1)
        Checked(s0) == IF upd THEN [s0 EXCEPT !.renames.dir_rename_mask = dirmask - 1] ELSE s0
        \* history: the mask the visit found, the dirmask, and the mask it left
        Visited(s0) ==
            Seen(s0, <<"visit", s.renames.dir_rename_mask, dirmask,
                       IF upd THEN dirmask - 1 ELSE s.renames.dir_rename_mask>>)
    IN Masked(Checked(Visited(IF upd /\ ~(s.renames.dir_rename_mask \in {0, dirmask - 1})
                              THEN Fail(s, "collect_rename_info: dir_rename_mask") ELSE s)))

----------------------------------------------------------------------------
(* Tree walking *)

\* The entry of a tree under a name, as a version_info (null when absent).
TreeLookup(t, n) ==
    IF \E i \in 1..Len(t.ents) : t.ents[i].name = n
    THEN LET i == CHOOSE j \in 1..Len(t.ents) : t.ents[j].name = n
         IN [oid |-> t.ents[i].oid, mode |-> t.ents[i].mode]
    ELSE NullVersion

\* What traverse_trees() hands to its callback for three tree descriptors:
\* one entry per name present in any of them, in byte order of the names,
\* with the three versions under that name.
TreeEntries(t) ==
    LET Entry(n) == [name |-> n,
                     names |-> <<TreeLookup(t[1], n), TreeLookup(t[2], n),
                                 TreeLookup(t[3], n)>>]
        Entries(sorted) == [i \in 1..Len(sorted) |-> Entry(sorted[i])]
    IN Entries(SortedKeys(UNION {{t[k].ents[i].name : i \in 1..Len(t[k].ents)} : k \in 1..3}))

EntryMask(names) ==
    (IF names[1].mode # 0 THEN 1 ELSE 0) + (IF names[2].mode # 0 THEN 2 ELSE 0)
    + (IF names[3].mode # 0 THEN 4 ELSE 0)
EntryDirmask(names) ==
    (IF names[1].mode = S_IFDIR THEN 1 ELSE 0) + (IF names[2].mode = S_IFDIR THEN 2 ELSE 0)
    + (IF names[3].mode = S_IFDIR THEN 4 ELSE 0)

SameVersion(a, b) == a.mode = b.mode /\ a.oid = b.oid

\* A faulty collector: the match mask of a pending record is not stored.
SetMatchMask_forgets(s, path, m) == s

SetMatchMask(s, path, m) == [s EXCEPT !.paths[path].match_mask = m]

\* A faulty traverse_trees_wrapper_callback: the mask is raised for an entry
\* that has a file on any side but the one of the mask.
traverse_trees_wrapper_callback_any(s, e) ==
    IF EntryMask(e.names) - EntryDirmask(e.names) # 0
    THEN Seen([s EXCEPT !.renames.dir_rename_mask = 6 - @], <<"raise", s.renames.dir_rename_mask, 7, 6 - s.renames.dir_rename_mask>>)
    ELSE s

traverse_trees_wrapper_callback(s, e) ==
    LET filemask == EntryMask(e.names) - EntryDirmask(e.names)
    IN IF filemask = s.renames.dir_rename_mask
       THEN Seen([s EXCEPT !.renames.dir_rename_mask = 7], <<"raise", filemask, 7, 7>>)
       ELSE s

RECURSIVE collect_merge_info_callback(_, _, _)
RECURSIVE traverse_trees(_, _, _)
RECURSIVE traverse_trees_wrapper(_, _, _)

\* The walk into a directory: traverse_trees(), or traverse_trees_wrapper()
\* while the renames of the directory are being looked for.
traverse_trees_of_dir(s, t, info) ==
    IF s.renames.dir_rename_mask \in {0, 7}
    THEN traverse_trees(s, t, info)
    ELSE traverse_trees_wrapper(s, t, info)

\* info: [path: the directory being walked, pathlen: length of its prefix]
collect_merge_info_callback(s, e, info) ==
    LET names == e.names
        mask == EntryMask(names)
        dirmask == EntryDirmask(names)
        filemask == mask - dirmask
        dirname == s.current_dir_name
        prev_dir_rename_mask == s.renames.dir_rename_mask
        mbase_null == Bit(mask, 0) = 0
        side1_null == Bit(mask, 1) = 0
        side2_null == Bit(mask, 2) = 0
        side1_matches_mbase == ~side1_null /\ ~mbase_null /\ SameVersion(names[1], names[2])
        side2_matches_mbase == ~side2_null /\ ~mbase_null /\ SameVersion(names[1], names[3])
        sides_match == ~side1_null /\ ~side2_null /\ SameVersion(names[2], names[3])
        df_conflict == filemask # 0 /\ dirmask # 0
        match_mask ==
            IF side1_matches_mbase THEN (IF side2_matches_mbase THEN 7 ELSE 3)
            ELSE IF side2_matches_mbase THEN 5
            ELSE IF sides_match THEN 6 ELSE 0
        fullpath == StrPtr(IF info.path = <<>> THEN e.name
                           ELSE info.path \o <<"/">> \o e.name, s.nalloc + 1)
        Resolved(t, v, is_null) ==
            setup_path_info(t, dirname, info.pathlen, fullpath, names, v, is_null,
                            FALSE, filemask, dirmask, TRUE)
        newdir == filemask = 0 /\ dirmask \in {2, 4}
        side == IF newdir THEN dirmask \div 2
                ELSE IF side1_matches_mbase THEN 2
                ELSE IF side2_matches_mbase THEN 1 ELSE 0
        Fill(i) == IF Bit(dirmask, i) = 1 THEN names[i + 1].oid ELSE null_oid
        t1 == IF side1_matches_mbase THEN Fill(0) ELSE Fill(1)
        t2 == IF side2_matches_mbase THEN Fill(0)
              ELSE IF sides_match THEN t1 ELSE Fill(2)
        newinfo == [path |-> fullpath.str, pathlen |-> info.pathlen + Len(e.name) + 1]
        \* s4: after the walk into the directory
        Leave(s4) == [s4 EXCEPT !.current_dir_name = s.current_dir_name,
                                !.renames.dir_rename_mask = prev_dir_rename_mask]
        \* s2: the record of the path is set up
        Enter(s2) ==
            [s2 EXCEPT !.paths[fullpath.str].match_mask = BitAnd(@, filemask),
                       !.current_dir_name = s2.keys[fullpath.str]]
        Recorded(s2) ==
            IF dirmask = 0
            THEN s2
            ELSE IF s2.renames.dir_rename_mask # 7 /\ side # 0
                    /\ s2.renames.trivial_merges_okay[side]
                    /\ fullpath.str \notin s2.renames.target_dirs[side]
            THEN [s2 EXCEPT !.renames.possible_trivial_merges[side] =
                                strmap_put(@, fullpath.str, s2.renames.dir_rename_mask),
                            !.renames.dir_rename_mask = prev_dir_rename_mask]
            ELSE Leave(traverse_trees_of_dir(Enter(s2), <<Fill(0), t1, t2>>, newinfo))
        \* s1: the renames of the path are collected
        Unresolved(s1) ==
            IF side1_matches_mbase /\ filemask = 7
            THEN Resolved(s1, names[3], side2_null)
            ELSE IF side2_matches_mbase /\ filemask = 7
            THEN Resolved(s1, names[2], side1_null)
            ELSE Recorded(SetMatchMask(
                     setup_path_info(s1, dirname, info.pathlen, fullpath, names, NullVersion,
                                     FALSE, df_conflict, filemask, dirmask, FALSE),
                     fullpath.str, IF dirmask # 0 /\ newdir THEN 7 - dirmask ELSE match_mask))
        \* s0: the full path is allocated
        Named(s0) ==
            IF side1_matches_mbase /\ side2_matches_mbase
            THEN Resolved(s0, names[1], mbase_null)
            ELSE IF filemask = 7 /\ sides_match
            THEN Resolved(s0, names[2], FALSE)
            ELSE Unresolved(collect_rename_info(s0, names, dirname.str, fullpath.str,
                                                filemask, dirmask, match_mask))
        \* history: the mask at the entry of the callback and at its return
        Returned(r) ==
            Seen(r, <<"callback", prev_dir_rename_mask, dirmask, r.renames.dir_rename_mask>>)
    IN Returned(Named([s EXCEPT !.nalloc = @ + 1]))

\* The callback on each entry of the directory, in the order of the names.
RECURSIVE CallbackOnEntries(_, _, _, _)
CallbackOnEntries(st, ents, info, i) ==
    IF i > Len(ents) \/ st.failed # <<>> THEN st
    ELSE CallbackOnEntries(collect_merge_info_callback(st, ents[i], info), ents, info, i + 1)

traverse_trees(s, t, info) == CallbackOnEntries(s, TreeEntries(t), info, 1)

\* traverse_trees_wrapper_callback() on each entry, before any entry is
\* handed to collect_merge_info_callback().
RECURSIVE SaveEntries(_, _, _)
SaveEntries(st, ents, i) ==
    IF i > Len(ents) \/ st.failed # <<>> THEN st
    ELSE SaveEntries(traverse_trees_wrapper_callback(st, ents[i]), ents, i + 1)

traverse_trees_wrapper(s, t, info) ==
    traverse_trees(
        SaveEntries(Seen(IF s.renames.dir_rename_mask \in {2, 4} THEN s
                         ELSE Fail(s, "traverse_trees_wrapper: dir_rename_mask"),
                         <<"wrapper", s.renames.dir_rename_mask, 0,
                           s.renames.dir_rename_mask>>),
                    TreeEntries(t), 1),
        t, info)

----------------------------------------------------------------------------
(* Deferred directories *)

\* A faulty trivial resolution: the directory is resolved to the version of
\* the merge base.
resolve_trivial_directory_merge_base(s, path, side) ==
    [s EXCEPT !.paths[path] =
        [s.paths[path] EXCEPT !.result = s.paths[path].stages[1],
                              !.is_null = (s.paths[path].stages[1].oid = null_oid),
                              !.match_mask = 0,
                              !.clean = TRUE]]

resolve_trivial_directory_merge(s, path, side) ==
    LET ci == s.paths[path]
        s0 == IF (side = 1 /\ ci.match_mask = 5) \/ (side = 2 /\ ci.match_mask = 3)
              THEN s ELSE Fail(s, "resolve_trivial_directory_merge: match_mask")
    IN [s0 EXCEPT !.paths[path] =
            [ci EXCEPT !.result = ci.stages[side + 1],
                       !.is_null = (ci.stages[side + 1].oid = null_oid),
                       !.match_mask = 0,
                       !.clean = TRUE]]

\* The leading directories of a rename target, deepest first, up to the
\* first one already recorded.
RECURSIVE AddTargetDirs(_, _)
AddTargetDirs(dirs, dir) ==
    IF ~HasSlash(dir) THEN dirs
    ELSE LET d == DirOf(dir)
         IN IF d \in dirs THEN dirs ELSE AddTargetDirs(dirs \cup {d}, d)

wanted_factor == 10

\* The loop over the directories deferred on a side (copy is the side's
\* possible_trivial_merges as the loop found it, keys its paths in order):
\* a directory is resolved without a walk, or walked now.
RECURSIVE handle_deferred_dirs(_, _, _, _, _, _)
handle_deferred_dirs(st, side, copy, keys, optimization_okay, i) ==
    IF i > Len(keys) \/ st.failed # <<>> THEN st
    ELSE handle_deferred_dirs(
            IF optimization_okay /\ keys[i] \notin st.renames.target_dirs[side]
            THEN resolve_trivial_directory_merge(st, keys[i], side)
            ELSE LET path == keys[i]
                     ci == st.paths[path]
                     Fill(k) == IF Bit(ci.dirmask, k) = 1 THEN ci.stages[k + 1].oid
                                ELSE null_oid
                     t1 == IF ci.match_mask = 3 THEN Fill(0) ELSE Fill(1)
                     t2 == IF ci.match_mask = 5 THEN Fill(0)
                           ELSE IF ci.match_mask = 6 THEN t1 ELSE Fill(2)
                 IN traverse_trees_of_dir(
                        [st EXCEPT !.paths[path].match_mask = BitAnd(ci.match_mask, ci.filemask),
                                   !.current_dir_name = st.keys[path],
                                   !.renames.dir_rename_mask = copy[path]],
                        <<Fill(0), t1, t2>>,
                        [path |-> path, pathlen |-> Len(path) + 1]),
            side, copy, keys, optimization_okay, i + 1)

\* The loop of handle_deferred_entries over the sides: the state and
\* path_count_after.
handle_deferred_sides(s) ==
    LET \* [okay, dirs]: the loop over relevant_sources[side], with its break
        RECURSIVE Scan(_, _, _, _, _)
        Scan(st, side, keys, dirs, i) ==
            IF i > Len(keys) THEN [okay |-> TRUE, dirs |-> dirs]
            ELSE IF keys[i] \in st.renames.cached_irrelevant[side]
            THEN Scan(st, side, keys, dirs, i + 1)
            ELSE IF ~strmap_contains(st.renames.cached_pairs[side], keys[i])
            THEN [okay |-> FALSE, dirs |-> dirs]
            ELSE Scan(st, side, keys,
                      IF st.renames.cached_pairs[side][keys[i]] = NoTarget
                         \/ strmap_contains(st.paths, st.renames.cached_pairs[side][keys[i]])
                      THEN dirs
                      ELSE AddTargetDirs(dirs, st.renames.cached_pairs[side][keys[i]]),
                      i + 1)
        \* the directories deferred during the loop over the side's directories
        RECURSIVE Rest(_, _, _, _)
        Rest(t, side, added, i) ==
            IF i > Len(added) \/ t.failed # <<>> THEN t
            ELSE Rest(resolve_trivial_directory_merge(
                          IF t.renames.trivial_merges_okay[side]
                             /\ added[i] \notin t.renames.target_dirs[side]
                          THEN t ELSE Fail(t, "handle_deferred_entries: deferred again"),
                          added[i], side),
                      side, added, i + 1)
        Ended(acc, optimization_okay, st3) ==
            [s |-> st3,
             after |-> IF ~optimization_okay \/ acc.after # 0
                       THEN Cardinality(DOMAIN st3.paths) ELSE acc.after]
        Walked(side, st2) ==
            Rest(st2, side, SortedKeys(DOMAIN st2.renames.possible_trivial_merges[side]), 1)
        Scanned(acc, side, scan) ==
            Ended(acc, scan.okay,
                  Walked(side,
                         handle_deferred_dirs(
                             [acc.s EXCEPT !.renames.target_dirs[side] = scan.dirs,
                                           !.renames.trivial_merges_okay[side] = scan.okay,
                                           !.renames.possible_trivial_merges[side] = <<>>],
                             side,
                             acc.s.renames.possible_trivial_merges[side],
                             SortedKeys(DOMAIN acc.s.renames.possible_trivial_merges[side]),
                             scan.okay, 1)))
        RECURSIVE Sides(_, _)
        Sides(acc, side) ==
            IF side > 2 THEN acc
            ELSE Sides(Scanned(acc, side,
                               Scan(acc.s, side,
                                    SortedKeys(DOMAIN acc.s.renames.relevant_sources[side]),
                                    acc.s.renames.target_dirs[side], 1)),
                       side + 1)
    IN Sides([s |-> s, after |-> 0], 1)

\* A faulty handle_deferred_entries: the path counts are compared without
\* the integer division.
handle_deferred_entries_multiplies(s) ==
    LET path_count_before == Cardinality(DOMAIN s.paths)
        Checked(t) == IF t.renames.redo_after_renames = 0 THEN t
                      ELSE Fail(t, "handle_deferred_entries: redo_after_renames")
        Finish(done) ==
            IF done.after # 0
            THEN IF done.after > wanted_factor * path_count_before
                 THEN [Checked(done.s) EXCEPT !.renames.redo_after_renames = 1,
                                              !.renames.cached_pairs_valid_side = -1]
                 ELSE Checked(done.s)
            ELSE IF done.s.renames.redo_after_renames = 2
            THEN [done.s EXCEPT !.renames.redo_after_renames = 0]
            ELSE done.s
    IN Finish(handle_deferred_sides(s))

handle_deferred_entries(s) ==
    LET path_count_before == Cardinality(DOMAIN s.paths)
        Checked(t) == IF t.renames.redo_after_renames = 0 THEN t
                      ELSE Fail(t, "handle_deferred_entries: redo_after_renames")
        \* the quotient of the path counts, the division being undefined for
        \* a divisor of 0
        Tested(done, t) ==
            IF path_count_before = 0
            THEN Fail(t, "handle_deferred_entries: division by zero")
            ELSE IF done.after \div path_count_before > wanted_factor
            THEN [t EXCEPT !.renames.redo_after_renames = 1,
                           !.renames.cached_pairs_valid_side = -1]
            ELSE t
        Finish(done) ==
            IF done.after # 0
            THEN Tested(done, Checked(done.s))
            ELSE IF done.s.renames.redo_after_renames = 2
            THEN [done.s EXCEPT !.renames.redo_after_renames = 0]
            ELSE done.s
    IN Finish(handle_deferred_sides(s))

collect_merge_info(s, merge_base, side1, side2) ==
    handle_deferred_entries(
        traverse_trees([s EXCEPT !.current_dir_name = toplevel_dir, !.masks = {}],
                       <<merge_base, side1, side2>>,
                       [path |-> <<>>, pathlen |-> 0]))

----------------------------------------------------------------------------
(* Blob contents and the external collaborators *)

\* A blob's content number encodes a file family (unrelated texts), a line
\* ending flag and two hunks: fam * 32 + eol * 16 + h1 * 4 + h2.  Hunk value
\* 3 is a hunk holding conflict markers.
Blob(fam, eol, h1, h2) == fam * 32 + eol * 16 + h1 * 4 + h2
Fam(n) == n \div 32
Eol(n) == (n \div 16) % 2
Hunk1(n) == (n \div 4) % 4
Hunk2(n) == n % 4

\* renormalize_buffer(): line endings are normalized away.
Renormalize(n) == Blob(Fam(n), 0, Hunk1(n), Hunk2(n))

\* The content merger (ll_merge) on blob contents; o is -1 for an empty
\* base.  A hunk changed on one side only takes that side's text, a hunk
\* changed differently on both sides conflicts.
ll_merge(o, a, b, renormalize) ==
    LET Norm(x) == IF x = -1 THEN -1 ELSE IF renormalize THEN Renormalize(x) ELSE x
        \* o1, a1, b1: the contents as the merger compares them
        Merged(o1, a1, b1) ==
            LET based == o1 # -1 /\ Fam(o1) = Fam(a1)
                Pick(x, y, z) ==   \* <<value, clean>> for base x and sides y, z
                    IF y = z THEN <<y, TRUE>>
                    ELSE IF based /\ y = x THEN <<z, TRUE>>
                    ELSE IF based /\ z = x THEN <<y, TRUE>>
                    ELSE <<3, FALSE>>
                Eols(x, y, z) ==
                    IF y = z THEN <<y, TRUE>>
                    ELSE IF o1 # -1 /\ y = x THEN <<z, TRUE>>
                    ELSE IF o1 # -1 /\ z = x THEN <<y, TRUE>>
                    ELSE <<y, FALSE>>
                Out(h1, h2, e) == [blob |-> Blob(Fam(a1), e[1], h1[1], h2[1]),
                                   clean |-> h1[2] /\ h2[2] /\ e[2]]
            IN IF Fam(a1) = Fam(b1)
               THEN Out(Pick(IF o1 = -1 THEN 0 ELSE Hunk1(o1), Hunk1(a1), Hunk1(b1)),
                        Pick(IF o1 = -1 THEN 0 ELSE Hunk2(o1), Hunk2(a1), Hunk2(b1)),
                        Eols(IF o1 = -1 THEN 0 ELSE Eol(o1), Eol(a1), Eol(b1)))
               ELSE [blob |-> Blob(Fam(a1), Eol(a1), 3, 3), clean |-> FALSE]
    IN Merged(Norm(o), Norm(a), Norm(b))

\* Similarity detection pairs a deleted and an added file holding the same
\* blob (exact) or blobs of one family (inexact), for files of one type.
ExactRename(one, two) == one.oid = two.oid /\ FileType(one.mode) = FileType(two.mode)
SimilarRename(one, two) ==
    /\ S_ISREG(one.mode) /\ S_ISREG(two.mode)
    /\ Fam(one.oid.blob) = Fam(two.oid.blob)

\* The renames the detector finds in a queue of adds and deletes: a set of
\* <<index of the add, index of the delete>>.  Each add takes the best unused
\* source: exact matches first, then a source with the same basename, then
\* the earliest queued.
FindRenames(pairs, relevant_sources) ==
    LET srcs == {i \in 1..Len(pairs) : pairs[i].two.mode = 0 /\ pairs[i].one.mode # 0
                                       /\ pairs[i].one.path \in DOMAIN relevant_sources}
        dsts == {i \in 1..Len(pairs) : pairs[i].one.mode = 0 /\ pairs[i].two.mode # 0}
        Rank(s, d) == (IF BaseOf(pairs[s].one.path) = BaseOf(pairs[d].two.path)
                       THEN 0 ELSE Len(pairs) + 1) + s
        Ok(exact, one, two) == IF exact THEN ExactRename(one, two)
                               ELSE SimilarRename(one, two)
        Pair(d, cands) == <<d, CHOOSE s \in cands : \A o \in cands : Rank(s, d) <= Rank(o, d)>>
        Add(m, d, cands) ==
            IF d \notin dsts \/ d \in {x[1] : x \in m} \/ cands = {} THEN m
            ELSE m \cup {Pair(d, cands)}
        RECURSIVE Phase(_, _, _)
        Phase(m, exact, d) ==
            IF d > Len(pairs) THEN m
            ELSE Phase(Add(m, d, {s \in srcs \ {x[2] : x \in m} :
                                    Ok(exact, pairs[s].one, pairs[d].two)}),
                       exact, d + 1)
    IN Phase(Phase({}, TRUE, 1), FALSE, 1)

\* update_dir_rename_counts(): a rename old -> new counts for the directory
\* of old, and for its ancestors while the trailing components agree and the
\* directory is marked as needing its own rename.
IncrementCount(counts, old_dir, new_dir) ==
    LET inner == strintmap_get(counts, old_dir, <<>>)
    IN strmap_put(counts, old_dir,
                  strmap_put(inner, new_dir, strintmap_get(inner, new_dir, 0) + 1))

UpdateDirRenameCounts(counts, dirs_removed, oldname, newname) ==
    LET RECURSIVE Loop(_, _, _, _)
        Loop(c, od, nd, first) ==
            LET old_dir == DirOf(od)
                new_dir == DirOf(nd)
                flag == strintmap_get(dirs_removed, old_dir, 0)
                c1 == IF flag = 2 \/ first THEN IncrementCount(c, old_dir, new_dir) ELSE c
            IN IF old_dir \notin DOMAIN dirs_removed THEN c
               ELSE IF ~first /\ BaseOf(od) # BaseOf(nd) THEN c
               ELSE IF flag = 0 \/ old_dir = <<>> \/ new_dir = <<>> THEN c1
               ELSE Loop(c1, old_dir, new_dir, FALSE)
    IN Loop(counts, oldname, newname, TRUE)

\* diffcore_rename_extended(): the queue with each matched add replaced by
\* its rename pair and each matched delete dropped, and the directory rename
\* counts of the renames found and of the cached renames.
diffcore_rename_extended(pairs, relevant_sources, dirs_removed, cached_pairs) ==
    LET \* m: the renames found
        RECURSIVE Out(_, _)
        Out(m, i) ==
            IF i > Len(pairs) THEN <<>>
            ELSE IF i \in {x[2] : x \in m} THEN Out(m, i + 1)
            ELSE IF i \in {x[1] : x \in m}
            THEN <<[pairs[i] EXCEPT !.one = pairs[(CHOOSE x \in m : x[1] = i)[2]].one]>>
                 \o Out(m, i + 1)
            ELSE <<pairs[i]>> \o Out(m, i + 1)
        Found(byadd) == [i \in 1..Len(byadd) |->
                            <<pairs[byadd[i][2]].one.path, pairs[byadd[i][1]].two.path>>]
        Cached(ckeys) == [i \in 1..Len(ckeys) |-> <<ckeys[i], cached_pairs[ckeys[i]]>>]
        RECURSIVE Count(_, _, _)
        Count(c, all, i) ==
            IF i > Len(all) THEN c
            ELSE Count(UpdateDirRenameCounts(c, dirs_removed, all[i][1], all[i][2]), all, i + 1)
        Kept(counted) ==
            [d \in {k \in DOMAIN counted : strintmap_get(dirs_removed, k, 0) # 0}
                |-> counted[d]]
        Result(m) ==
            [pairs |-> Out(m, 1),
             dir_rename_count |->
                Kept(Count(<<>>,
                           Cached(SortedKeys({k \in DOMAIN cached_pairs :
                                                cached_pairs[k] # NoTarget}))
                           \o Found(SortBy(SetToSeq(m), {p \in m \X m : p[1][1] < p[2][1]})),
                           1))]
    IN Result(FindRenames(pairs, relevant_sources))

----------------------------------------------------------------------------
(* Messages, unique paths, content merge *)

MERGE_DIRECTORY_RENAMES_NONE == 0
MERGE_DIRECTORY_RENAMES_CONFLICT == 1
MERGE_DIRECTORY_RENAMES_TRUE == 2

\* path_msg(): one more message under a path; a message is its kind
\* followed by its arguments.
path_msg(s, path, msg) ==
    [s EXCEPT !.output = strmap_put(@, path, Append(strintmap_get(@, path, <<>>), msg))]

add_flattened_path(out, str) ==
    out \o [i \in 1..Len(str) |-> IF str[i] = "/" THEN "_" ELSE str[i]]

Digit(n) == CASE n = 0 -> "0" [] n = 1 -> "1" [] OTHER -> "2"

\* A faulty unique_path: the suffixes are counted from 1.
unique_path_counts_from_one(existing_paths, path, branch) ==
    LET base == add_flattened_path(path \o <<"~">>, branch)
        RECURSIVE Try(_, _)
        Try(newpath, suffix) ==
            IF strmap_contains(existing_paths, newpath)
            THEN Try(base \o <<"_", Digit(suffix)>>, suffix + 1)
            ELSE newpath
    IN Try(base, 1)

unique_path(existing_paths, path, branch) ==
    LET base == add_flattened_path(path \o <<"~">>, branch)
        RECURSIVE Try(_, _)
        Try(newpath, suffix) ==
            IF strmap_contains(existing_paths, newpath)
            THEN Try(base \o <<"_", Digit(suffix)>>, suffix + 1)
            ELSE newpath
    IN Try(base, 0)

\* merge_3way(): the merge status of ll_merge and the merged content; a
\* negative status is a merge that could not be carried out.
\* A faulty merge_3way: a merger that resolves every difference in favour
\* of side a.
merge_3way_ours(opt, o, a, b) ==
    [merge_status |-> 0, blob |-> a.blob]

merge_3way(opt, o, a, b) ==
    LET Status(m) == [merge_status |-> IF opt.env.merge = "fail" THEN -1
                                       ELSE IF m.clean THEN 0 ELSE 1,
                      blob |-> m.blob]
    IN Status(ll_merge(IF o = null_oid THEN -1 ELSE o.blob, a.blob, b.blob, opt.renormalize))

\* merge_submodule() where the submodule is not checked out.
merge_submodule(s, path, o, a, b) ==
    IF o = null_oid \/ a = null_oid \/ b = null_oid
    THEN [clean |-> 0, oid |-> a, s |-> s]
    ELSE [clean |-> 0, oid |-> a,
          s |-> path_msg(s, path, <<"Failed to merge submodule (not checked out)", path>>)]

\* Returns ret (1 clean, 0 unclean, -1 error), the merged version and the
\* state with its messages.  The caller's result is uninitialized storage:
\* what the function does not write keeps the storage's previous content.
handle_content_merge(opt, s, path, o, a, b, pathnames, extra_marker_size) ==
    LET mode_ok == a.mode = b.mode \/ a.mode = o.mode
        mode == IF mode_ok THEN b.mode ELSE a.mode
        clean == IF mode_ok THEN 1 ELSE IF b.mode = o.mode THEN 1 ELSE 0
        two_way == FileType(o.mode) # FileType(a.mode)
        Done(c, oid, t) == [ret |-> c, result |-> [oid |-> oid, mode |-> mode], s |-> t]
        \* m: what merge_3way() returned
        Merged(s0, m) ==
            IF m.merge_status < 0
            THEN Done(-1, opt.env.garbage, s0)
            ELSE IF opt.env.merge = "nowrite"
            THEN Done(-1, opt.env.garbage, s0)
            ELSE Done(IF m.merge_status = 0 THEN clean ELSE 0, BlobOid(m.blob),
                      path_msg(s0, path, <<"Auto-merging", path>>))
        Submodule(sub) == Done(sub.clean, sub.oid, sub.s)
        \* s0: the types and modes are checked
        Checked(s0) ==
            IF a.oid = b.oid \/ a.oid = o.oid THEN Done(clean, b.oid, s0)
            ELSE IF b.oid = o.oid THEN Done(clean, a.oid, s0)
            ELSE IF S_ISREG(a.mode)
            THEN Merged(s0, merge_3way(opt, IF two_way THEN null_oid ELSE o.oid, a.oid, b.oid))
            ELSE IF S_ISGITLINK(a.mode)
            THEN Submodule(merge_submodule(s0, pathnames[1],
                                           IF two_way THEN null_oid ELSE o.oid, a.oid, b.oid))
            ELSE IF S_ISLNK(a.mode)
            THEN Done(0, a.oid, s0)
            ELSE [ret |-> clean, result |-> [oid |-> opt.env.garbage, mode |-> mode],
                  s |-> Fail(s0, "handle_content_merge: unsupported object type")]
    IN Checked(IF FileType(a.mode) # FileType(b.mode)
               THEN Fail(s, "handle_content_merge: types differ")
               ELSE IF ~mode_ok /\ ~S_ISREG(a.mode)
               THEN Fail(s, "handle_content_merge: mode of a non-regular file")
               ELSE s)

----------------------------------------------------------------------------
(* Directory renames *)

apply_dir_rename(old_dir, new_dir, old_path) ==
    LET oldlen == Len(old_dir) + (IF new_dir = <<>> THEN 1 ELSE 0)
    IN new_dir \o SubSeq(old_path, oldlen + 1, Len(old_path))

path_in_way(paths, path, side_mask) ==
    IF ~strmap_contains(paths, path) THEN FALSE
    ELSE paths[path].clean
         \/ BitAnd(side_mask, BitOr(paths[path].filemask, paths[path].dirmask)) # 0

\* The nearest leading directory of path that dir_renames maps (NoTarget
\* when there is none).
check_dir_renamed(path, dir_renames) ==
    LET RECURSIVE Up(_)
        Up(temp) ==
            IF ~HasSlash(temp) THEN NoTarget
            ELSE IF strmap_contains(dir_renames, DirOf(temp)) THEN DirOf(temp)
            ELSE Up(DirOf(temp))
    IN Up(path)

compute_collisions(dir_renames, pairs) ==
    LET Put(collisions, new_path, path) ==
            strmap_put(collisions, new_path,
                       [strintmap_get(collisions, new_path,
                                      [source_files |-> {}, reported_already |-> FALSE])
                          EXCEPT !.source_files = @ \cup {path}])
        Add(collisions, pair, old_dir) ==
            IF pair.status \notin {"A", "R"} \/ old_dir = NoTarget THEN collisions
            ELSE Put(collisions,
                     apply_dir_rename(old_dir, dir_renames[old_dir], pair.two.path),
                     pair.two.path)
        RECURSIVE Each(_, _)
        Each(collisions, i) ==
            IF i > Len(pairs) THEN collisions
            ELSE Each(Add(collisions, pairs[i],
                          check_dir_renamed(pairs[i].two.path, dir_renames)), i + 1)
    IN IF DOMAIN dir_renames = {} THEN <<>> ELSE Each(<<>>, 1)

\* A faulty handle_path_level_conflicts: the new path is returned whatever
\* is at it and however many paths map to it.
handle_path_level_conflicts_applies(s, collisions, path, side_index, old_dir, new_dir) ==
    [s |-> s, collisions |-> collisions, new_path |-> apply_dir_rename(old_dir, new_dir, path)]

\* Returns the state, the collisions and the new path (NoTarget for NULL).
handle_path_level_conflicts(s, collisions, path, side_index, old_dir, new_dir) ==
    LET new_path == apply_dir_rename(old_dir, new_dir, path)
        known == strmap_contains(collisions, new_path)
        c_info == collisions[new_path]
        reported == [collisions EXCEPT ![new_path].reported_already = TRUE]
    IN IF ~known
       THEN [s |-> Fail(s, "BUG: c_info is NULL"), collisions |-> collisions,
             new_path |-> NoTarget]
       ELSE IF c_info.reported_already
       THEN [s |-> s, collisions |-> collisions, new_path |-> NoTarget]
       ELSE IF path_in_way(s.paths, new_path, 2 ^ side_index)
       THEN [s |-> path_msg(s, new_path,
                            <<"CONFLICT (implicit dir rename): existing file/dir in the way",
                              new_path>>),
             collisions |-> reported, new_path |-> NoTarget]
       ELSE IF Cardinality(c_info.source_files) > 1
       THEN [s |-> path_msg(s, new_path,
                            <<"CONFLICT (implicit dir rename): cannot map more than one path",
                              new_path>>),
             collisions |-> reported, new_path |-> NoTarget]
       ELSE [s |-> s, collisions |-> collisions, new_path |-> new_path]

\* The order in which strintmap_for_each_entry visits the keys of a count
\* map: that of the hash table, which the caller cannot choose.
IterationOrder(opt, keys) ==
    LET Ordered(up) == IF opt.env.order = "asc" THEN up
                       ELSE [i \in 1..Len(up) |-> up[Len(up) + 1 - i]]
    IN Ordered(SortedKeys(keys))

\* A faulty get_directory_renames: among equal counts the one visited last
\* wins, and no split is reported.
get_directory_renames_last_wins(opt, s, side, clean) ==
    LET drc == s.renames.dir_rename_count[side]
        dirs == SortedKeys(DOMAIN drc)
        Best(counts) ==
            LET keys == IterationOrder(opt, DOMAIN counts)
                RECURSIVE Scan(_, _)
                Scan(acc, i) ==
                    IF i > Len(keys) THEN acc
                    ELSE IF counts[keys[i]] >= acc.max
                    THEN Scan([max |-> counts[keys[i]], best |-> keys[i]], i + 1)
                    ELSE Scan(acc, i + 1)
            IN Scan([max |-> 0, best |-> NoTarget], 1)
        RECURSIVE Each(_, _)
        Each(acc, i) ==
            IF i > Len(dirs) THEN acc
            ELSE IF Best(drc[dirs[i]]).max = 0 THEN Each(acc, i + 1)
            ELSE Each([acc EXCEPT
                         !.dir_renames = strmap_put(@, dirs[i], Best(drc[dirs[i]]).best)],
                      i + 1)
    IN Each([s |-> s, dir_renames |-> <<>>, clean |-> clean], 1)

\* Returns the state with its messages, the map old directory -> best new
\* directory, and the clean flag.
get_directory_renames(opt, s, side, clean) ==
    LET drc == s.renames.dir_rename_count[side]
        \* the loop over the targets counted for a source directory
        RECURSIVE Scan(_, _, _, _)
        Scan(counts, keys, acc, i) ==
            IF i > Len(keys) THEN acc
            ELSE Scan(counts, keys,
                      IF counts[keys[i]] = acc.max
                      THEN [acc EXCEPT !.bad_max = acc.max]
                      ELSE IF counts[keys[i]] > acc.max
                      THEN [acc EXCEPT !.max = counts[keys[i]], !.best = keys[i]]
                      ELSE acc,
                      i + 1)
        Best(counts) ==
            Scan(counts, IterationOrder(opt, DOMAIN counts),
                 [max |-> 0, bad_max |-> 0, best |-> NoTarget], 1)
        Decided(acc, source_dir, b) ==
            IF b.max = 0 THEN acc
            ELSE IF b.bad_max = b.max
            THEN [acc EXCEPT
                    !.s = path_msg(@, source_dir,
                                   <<"CONFLICT (directory rename split)", source_dir>>),
                    !.clean = 0]
            ELSE [acc EXCEPT !.dir_renames = strmap_put(@, source_dir, b.best)]
        RECURSIVE Each(_, _, _)
        Each(acc, dirs, i) ==
            IF i > Len(dirs) \/ acc.s.failed # <<>> THEN acc
            ELSE Each(Decided(acc, dirs[i], Best(drc[dirs[i]])), dirs, i + 1)
    IN Each([s |-> s, dir_renames |-> <<>>, clean |-> clean], SortedKeys(DOMAIN drc), 1)

remove_invalid_dir_renames(s, side_dir_renames, side_mask) ==
    LET removable == {k \in DOMAIN side_dir_renames :
                        \/ ~strmap_contains(s.paths, k)
                        \/ s.paths[k].clean
                        \/ BitAnd(s.paths[k].dirmask, side_mask) # 0}
    IN [k \in (DOMAIN side_dir_renames) \ removable |-> side_dir_renames[k]]

\* The two maps after removing directories renamed on both sides and
\* renames that are not valid.
handle_directory_level_conflicts(s, side1_dir_renames, side2_dir_renames) ==
    LET duplicated == (DOMAIN side1_dir_renames) \cap (DOMAIN side2_dir_renames)
        d1 == [k \in (DOMAIN side1_dir_renames) \ duplicated |-> side1_dir_renames[k]]
        d2 == [k \in (DOMAIN side2_dir_renames) \ duplicated |-> side2_dir_renames[k]]
    IN <<remove_invalid_dir_renames(s, d1, 2), remove_invalid_dir_renames(s, d2, 4)>>

\* Returns the state, the collisions, the new path (NoTarget for NULL) and
\* the clean flag.
check_for_directory_rename(s, collisions, path, side_index, dir_renames, dir_rename_exclusions, clean_merge) ==
    LET None(t) == [s |-> t, collisions |-> collisions, new_path |-> NoTarget,
                    clean |-> clean_merge]
        Handled(h) == [s |-> h.s, collisions |-> h.collisions, new_path |-> h.new_path,
                       clean |-> IF h.new_path = NoTarget THEN 0 ELSE clean_merge]
        Renamed(old_dir) ==
            IF DOMAIN dir_renames = {} \/ old_dir = NoTarget THEN None(s)
            ELSE IF strmap_contains(dir_rename_exclusions, dir_renames[old_dir])
            THEN None(path_msg(s, old_dir, <<"WARNING: Avoiding applying rename", old_dir,
                                              dir_renames[old_dir], path>>))
            ELSE Handled(handle_path_level_conflicts(s, collisions, path, side_index,
                                                     old_dir, dir_renames[old_dir]))
    IN Renamed(check_dir_renamed(path, dir_renames))

\* A faulty apply_directory_rename_modifications: the duplicate made of
\* the parent's name is used as it is, not the key the path map knows the
\* parent under.
apply_directory_rename_modifications_dups(opt, s, pair, new_path) ==
    LET old_path == pair.two.path
        ci == strintmap_get(s.paths, old_path, ZeroInfo)
        \* the leading directories of new_path that have no record, deepest first
        RECURSIVE Missing(_)
        Missing(cur_path) ==
            IF ~HasSlash(cur_path) \/ strmap_contains(s.paths, DirOf(cur_path)) THEN <<>>
            ELSE <<DirOf(cur_path)>> \o Missing(DirOf(cur_path))
        BasenameOffset(parent) == IF Len(parent.str) > 0 THEN Len(parent.str) + 1 ELSE 0
        Found(top) == IF HasSlash(top) THEN StrPtr(DirOf(top), s.nalloc + 1) ELSE toplevel_dir
        RECURSIVE Insert(_, _, _, _)
        Insert(t, dirs_to_insert, parent_name, i) ==
            IF i = 0 \/ t.failed # <<>> THEN [s |-> t, parent_name |-> parent_name]
            ELSE Insert(PutPath([t EXCEPT !.nalloc = @ + 2],
                                StrPtr(dirs_to_insert[i], t.nalloc + 1),
                                [ZeroInfo EXCEPT !.addr = t.nalloc + 2,
                                                 !.directory_name = parent_name,
                                                 !.basename_offset = BasenameOffset(parent_name),
                                                 !.dirmask = ci.filemask]),
                        dirs_to_insert, StrPtr(dirs_to_insert[i], t.nalloc + 1), i - 1)
        index == ci.filemask \div 2
        branch_with_new_path == IF ci.filemask = 2 THEN opt.branch1 ELSE opt.branch2
        branch_with_dir_rename == IF ci.filemask = 2 THEN opt.branch2 ELSE opt.branch1
        \* s3: the record is at its new path
        Told(s3) ==
            IF opt.detect_directory_renames = MERGE_DIRECTORY_RENAMES_TRUE
            THEN path_msg(s3, new_path,
                          <<"Path updated", old_path, branch_with_new_path,
                            branch_with_dir_rename, new_path>>)
            ELSE path_msg([s3 EXCEPT !.paths[new_path].path_conflict = TRUE], new_path,
                          <<"CONFLICT (file location)", old_path, branch_with_new_path,
                            branch_with_dir_rename, new_path>>)
        Merged(t, new_ci) ==
            [t EXCEPT !.paths[new_path] =
                [new_ci EXCEPT !.filemask = BitOr(new_ci.filemask, ci.filemask),
                               !.df_conflict = (new_ci.dirmask # 0) \/ @,
                               !.pathnames[index + 1] = ci.pathnames[index + 1],
                               !.stages[index + 1] = ci.stages[index + 1]]]
        \* s2: the record is removed from its old path
        Placed(s2, parent_name) ==
            IF ~strmap_contains(s2.paths, new_path)
            THEN PutPath(s2, StrPtr(new_path, s.nalloc + 1),
                         [ci EXCEPT !.directory_name = parent_name,
                                    !.basename_offset = BasenameOffset(parent_name)])
            ELSE Merged(IF BitAnd(s2.paths[new_path].filemask, ci.filemask) = 0
                           /\ ~s2.paths[new_path].clean
                        THEN s2
                        ELSE Fail(s2, "apply_directory_rename_modifications: target record"),
                        s2.paths[new_path])
        Inserted(ins) ==
            Told(Placed(RemovePath(
                            IF ci.filemask \in {2, 4} /\ ci.dirmask = 0 THEN ins.s
                            ELSE Fail(ins.s,
                                      "apply_directory_rename_modifications: filemask or dirmask"),
                            old_path),
                        ins.parent_name))
        Checked(s0, dirs_to_insert) ==
            Inserted(Insert([s0 EXCEPT !.nalloc = @ + 1], dirs_to_insert,
                            Found(IF dirs_to_insert = <<>> THEN new_path
                                  ELSE dirs_to_insert[Len(dirs_to_insert)]),
                            Len(dirs_to_insert)))
    IN [s |-> Checked(IF strmap_contains(s.paths, old_path) THEN s
                      ELSE Fail(s, "apply_directory_rename_modifications: no entry at old path"),
                      Missing(new_path)),
        pair |-> [pair EXCEPT !.two.path = new_path]]

\* Moves the record of pair.two.path to new_path, creating the missing
\* parent directories.  Returns the state and the pair with its new target.
apply_directory_rename_modifications(opt, s, pair, new_path) ==
    LET old_path == pair.two.path
        ci == strintmap_get(s.paths, old_path, ZeroInfo)
        \* the leading directories of new_path that have no record, deepest first
        RECURSIVE Missing(_)
        Missing(cur_path) ==
            IF ~HasSlash(cur_path) \/ strmap_contains(s.paths, DirOf(cur_path)) THEN <<>>
            ELSE <<DirOf(cur_path)>> \o Missing(DirOf(cur_path))
        BasenameOffset(parent) == IF Len(parent.str) > 0 THEN Len(parent.str) + 1 ELSE 0
        Found(top) == IF HasSlash(top) THEN s.keys[DirOf(top)] ELSE toplevel_dir
        RECURSIVE Insert(_, _, _, _)
        Insert(t, dirs_to_insert, parent_name, i) ==
            IF i = 0 \/ t.failed # <<>> THEN [s |-> t, parent_name |-> parent_name]
            ELSE Insert(PutPath([t EXCEPT !.nalloc = @ + 2],
                                StrPtr(dirs_to_insert[i], t.nalloc + 1),
                                [ZeroInfo EXCEPT !.addr = t.nalloc + 2,
                                                 !.directory_name = parent_name,
                                                 !.basename_offset = BasenameOffset(parent_name),
                                                 !.dirmask = ci.filemask]),
                        dirs_to_insert, StrPtr(dirs_to_insert[i], t.nalloc + 1), i - 1)
        index == ci.filemask \div 2
        branch_with_new_path == IF ci.filemask = 2 THEN opt.branch1 ELSE opt.branch2
        branch_with_dir_rename == IF ci.filemask = 2 THEN opt.branch2 ELSE opt.branch1
        \* s3: the record is at its new path
        Told(s3) ==
            IF opt.detect_directory_renames = MERGE_DIRECTORY_RENAMES_TRUE
            THEN path_msg(s3, new_path,
                          <<"Path updated", old_path, branch_with_new_path,
                            branch_with_dir_rename, new_path>>)
            ELSE path_msg([s3 EXCEPT !.paths[new_path].path_conflict = TRUE], new_path,
                          <<"CONFLICT (file location)", old_path, branch_with_new_path,
                            branch_with_dir_rename, new_path>>)
        Merged(t, new_ci) ==
            [t EXCEPT !.paths[new_path] =
                [new_ci EXCEPT !.filemask = BitOr(new_ci.filemask, ci.filemask),
                               !.df_conflict = (new_ci.dirmask # 0) \/ @,
                               !.pathnames[index + 1] = ci.pathnames[index + 1],
                               !.stages[index + 1] = ci.stages[index + 1]]]
        \* s2: the record is removed from its old path
        Placed(s2, parent_name) ==
            IF ~strmap_contains(s2.paths, new_path)
            THEN PutPath(s2, StrPtr(new_path, s.nalloc + 1),
                         [ci EXCEPT !.directory_name = parent_name,
                                    !.basename_offset = BasenameOffset(parent_name)])
            ELSE Merged(IF BitAnd(s2.paths[new_path].filemask, ci.filemask) = 0
                           /\ ~s2.paths[new_path].clean
                        THEN s2
                        ELSE Fail(s2, "apply_directory_rename_modifications: target record"),
                        s2.paths[new_path])
        Inserted(ins) ==
            Told(Placed(RemovePath(
                            IF ci.filemask \in {2, 4} /\ ci.dirmask = 0 THEN ins.s
                            ELSE Fail(ins.s,
                                      "apply_directory_rename_modifications: filemask or dirmask"),
                            old_path),
                        ins.parent_name))
        Checked(s0, dirs_to_insert) ==
            Inserted(Insert([s0 EXCEPT !.nalloc = @ + 1], dirs_to_insert,
                            Found(IF dirs_to_insert = <<>> THEN new_path
                                  ELSE dirs_to_insert[Len(dirs_to_insert)]),
                            Len(dirs_to_insert)))
    IN [s |-> Checked(IF strmap_contains(s.paths, old_path) THEN s
                      ELSE Fail(s, "apply_directory_rename_modifications: no entry at old path"),
                      Missing(new_path)),
        pair |-> [pair EXCEPT !.two.path = new_path]]

----------------------------------------------------------------------------
(* Rename detection and the rename cache *)

possible_uncached_renames(renames, side_index) ==
    Len(renames.pairs[side_index]) > 0 /\ DOMAIN renames.relevant_sources[side_index] # {}

possible_renames(renames) ==
    \/ possible_uncached_renames(renames, 1)
    \/ possible_uncached_renames(renames, 2)
    \/ DOMAIN renames.cached_pairs[1] # {}
    \/ DOMAIN renames.cached_pairs[2] # {}

resolve_diffpair_statuses(q) ==
    [i \in 1..Len(q) |->
        [q[i] EXCEPT !.status = IF q[i].one.mode = 0 THEN "A"
                                ELSE IF q[i].two.mode = 0 THEN "D"
                                ELSE IF q[i].one.path # q[i].two.path THEN "R"
                                ELSE ""]]

prune_cached_from_relevant(renames, side) ==
    LET gone == (DOMAIN renames.cached_pairs[side]) \cup renames.cached_irrelevant[side]
        rs == renames.relevant_sources[side]
    IN [renames EXCEPT !.relevant_sources[side] = [k \in (DOMAIN rs) \ gone |-> rs[k]]]

\* The queue with one more pair per cached rename or delete; only the names
\* and the status of these pairs are meaningful.
use_cached_pairs(cached_pairs, pairs) ==
    LET Cached(old_name) ==
            [one |-> Filespec(old_name, NullVersion),
             two |-> Filespec(IF cached_pairs[old_name] = NoTarget THEN old_name
                              ELSE cached_pairs[old_name], NullVersion),
             status |-> IF cached_pairs[old_name] = NoTarget THEN "D" ELSE "R",
             score |-> 0]
        Queued(keys) == [i \in 1..Len(keys) |-> Cached(keys[i])]
    IN pairs \o Queued(SortedKeys(DOMAIN cached_pairs))

possibly_cache_new_pair(s, p, side, new_path) ==
    LET renames == s.renames
        val == strintmap_get(renames.relevant_sources[side], p.one.path, -1)
        s0 == IF new_path = NoTarget /\ val = 0
              THEN [(IF p.status = "D" THEN s
                     ELSE Fail(s, "possibly_cache_new_pair: status of an irrelevant source"))
                    EXCEPT !.renames.cached_irrelevant[side] = @ \cup {p.one.path}]
              ELSE s
        target == IF new_path = NoTarget THEN p.two.path ELSE new_path
    IN IF new_path = NoTarget /\ val <= 0 THEN s0
       ELSE IF p.status = "D"
       THEN [s0 EXCEPT !.renames.cached_pairs[side] = strmap_put(@, p.one.path, NoTarget)]
       ELSE IF p.status = "R"
       THEN [s0 EXCEPT !.renames.cached_pairs[side] = strmap_put(@, p.one.path, target),
                       !.renames.cached_target_names[side] = @ \cup {target}]
       ELSE IF p.status = "A" /\ new_path # NoTarget
       THEN [(IF strmap_contains(s0.renames.cached_pairs[side], p.two.path)
              THEN Fail(s0, "possibly_cache_new_pair: add already cached") ELSE s0)
             EXCEPT !.renames.cached_pairs[side] = strmap_put(@, p.two.path, new_path),
                    !.renames.cached_target_names[side] = @ \cup {new_path}]
       ELSE s0

compare_pairs(a, b) ==
    LET cmp == StrCmp(a.one.path, b.one.path)
    IN IF cmp # 0 THEN cmp ELSE a.score - b.score

merge_detect_rename(opt) == opt.detect_renames

\* Returns the state and whether detection ran for the side.
detect_regular_renames(opt, s, side_index) ==
    LET RECURSIVE Cache(_, _)
        Cache(t, i) ==
            IF i > Len(t.renames.pairs[side_index]) \/ t.failed # <<>> THEN t
            ELSE Cache(possibly_cache_new_pair(t, t.renames.pairs[side_index][i],
                                               side_index, NoTarget), i + 1)
        \* d: what diffcore_rename_extended() returned
        Detected(renames, d) ==
            [renames EXCEPT !.pairs[side_index] = resolve_diffpair_statuses(d.pairs),
                            !.dir_rename_count[side_index] = d.dir_rename_count]
        Ran(redo, t) ==
            [s |-> IF redo # 0 THEN Cache([t EXCEPT !.renames.redo_after_renames = 2], 1) ELSE t,
             ran |-> 1]
        \* renames: without the sources whose renames are cached
        Pruned(renames) ==
            IF ~possible_uncached_renames(renames, side_index)
            THEN [s |-> [s EXCEPT !.renames =
                           [renames EXCEPT !.pairs[side_index] = resolve_diffpair_statuses(@)]],
                  ran |-> 0]
            ELSE Ran(renames.redo_after_renames,
                     [s EXCEPT !.renames =
                        Detected(renames,
                                 diffcore_rename_extended(renames.pairs[side_index],
                                                          renames.relevant_sources[side_index],
                                                          renames.dirs_removed[side_index],
                                                          renames.cached_pairs[side_index]))])
    IN Pruned(prune_cached_from_relevant(s.renames, side_index))

\* Returns the state, the queue with the side's renames appended, and the
\* clean flag.
collect_renames(opt, s, queue, side_index, dir_renames_for_side, rename_exclusions) ==
    LET side_pairs == s.renames.pairs[side_index]
        \* m: the pair as apply_directory_rename_modifications() left it
        Moved(acc, c, m) ==
            [s |-> m.s, collisions |-> c.collisions, clean |-> c.clean,
             queue |-> Append(acc.queue, [m.pair EXCEPT !.score = side_index])]
        Cached(acc, p, c, s2) ==
            Moved(acc, c,
                  IF c.new_path # NoTarget
                  THEN apply_directory_rename_modifications(opt, s2, p, c.new_path)
                  ELSE [s |-> s2, pair |-> p])
        \* c: what check_for_directory_rename() returned
        Checked(acc, p, c) ==
            IF p.status # "R" /\ c.new_path = NoTarget
            THEN [acc EXCEPT !.s = c.s, !.collisions = c.collisions, !.clean = c.clean]
            ELSE Cached(acc, p, c, possibly_cache_new_pair(c.s, p, side_index, c.new_path))
        Pair(acc, p, s1) ==
            IF p.status \notin {"A", "R"} THEN [acc EXCEPT !.s = s1]
            ELSE Checked(acc, p,
                         check_for_directory_rename(s1, acc.collisions, p.two.path,
                                                    side_index, dir_renames_for_side,
                                                    rename_exclusions, acc.clean))
        RECURSIVE Each(_, _)
        Each(acc, i) ==
            IF i > Len(side_pairs) \/ acc.s.failed # <<>> THEN acc
            ELSE Each(Pair(acc, side_pairs[i],
                           possibly_cache_new_pair(acc.s, side_pairs[i], side_index, NoTarget)),
                      i + 1)
        Result(done) == [s |-> done.s, queue |-> done.queue, clean |-> done.clean]
    IN Result(Each([s |-> s, clean |-> 1, queue |-> queue,
                    collisions |-> compute_collisions(dir_renames_for_side, side_pairs)], 1))

\* Returns the state and clean_merge.  Processing stops at a failed
\* assertion or at a use of a record that does not exist.
process_renames(opt, s, queue) ==
    LET RECURSIVE Loop(_, _, _)
        Loop(t, clean_merge, i) ==
            IF i > Len(queue) \/ t.failed # <<>> THEN [s |-> t, clean_merge |-> clean_merge]
            ELSE
            LET pair == queue[i]
                oldpath == pair.one.path
                newpath == pair.two.path
                has_old == strmap_contains(t.paths, oldpath)
                has_new == strmap_contains(t.paths, newpath)
                oldinfo == t.paths[oldpath]
                newinfo == t.paths[newpath]
                Stop(what) == [s |-> Fail(t, what), clean_merge |-> clean_merge]
                \* rename/rename(1to1) and rename/rename(1to2)
                other == queue[i + 1].two.path
                pathnames12 == <<oldpath, newpath, other>>
                side1 == t.paths[newpath]
                side2 == t.paths[other]
                \* h12: what handle_content_merge() returned
                was_binary_blob(h12) == h12.ret = 0 /\ h12.result = side1.stages[2]
                t12(h12) ==
                    path_msg(
                      [h12.s EXCEPT !.paths[newpath].stages[2] = h12.result,
                                    !.paths[newpath].path_conflict = TRUE,
                                    !.paths[other].stages[3] =
                                        IF was_binary_blob(h12) THEN side2.stages[3]
                                        ELSE h12.result,
                                    !.paths[other].path_conflict = TRUE,
                                    !.paths[oldpath].path_conflict = TRUE],
                      oldpath,
                      <<"CONFLICT (rename/rename)", oldpath, newpath, opt.branch1,
                        other, opt.branch2>>)
                Merged12(h12) == Loop(t12(h12), h12.ret, i + 2)
                t11 == [t EXCEPT !.paths[newpath].stages[1] = oldinfo.stages[1],
                                 !.paths[newpath].filemask = BitOr(@, 1),
                                 !.paths[oldpath].is_null = TRUE,
                                 !.paths[oldpath].clean = TRUE]
                \* every other rename
                target_index == pair.score
                other_source_index == 3 - target_index
                old_sidemask == 2 ^ other_source_index
                source_deleted == oldinfo.filemask = 1
                type_changed ==
                    /\ ~source_deleted
                    /\ S_ISREG(oldinfo.stages[other_source_index + 1].mode)
                         # S_ISREG(newinfo.stages[target_index + 1].mode)
                collision == ~type_changed /\ BitAnd(newinfo.filemask, old_sidemask) # 0
                rename_branch == IF target_index = 1 THEN opt.branch1 ELSE opt.branch2
                delete_branch == IF target_index = 1 THEN opt.branch2 ELSE opt.branch1
                t0 == IF type_changed THEN t
                      ELSE [t EXCEPT !.paths[oldpath].is_null = TRUE,
                                     !.paths[oldpath].clean = TRUE]
                pathnames == [k \in 1..3 |-> IF k = target_index + 1 THEN newpath ELSE oldpath]
                \* hc: what handle_content_merge() returned
                Stored(tc0, ret) ==
                    IF ret = 0
                    THEN path_msg(tc0, newpath,
                                  <<"CONFLICT (rename involved in collision)",
                                    oldpath, newpath>>)
                    ELSE tc0
                tc(hc) ==
                    Stored([hc.s EXCEPT !.paths[newpath].stages[target_index + 1] = hc.result],
                           hc.ret)
                RenameDelete(u) ==
                    path_msg([u EXCEPT !.paths[newpath].path_conflict = TRUE], newpath,
                             <<"CONFLICT (rename/delete)", oldpath, newpath,
                               rename_branch, delete_branch>>)
                tn0 == [t0 EXCEPT !.paths[newpath].stages[1] = oldinfo.stages[1],
                                  !.paths[newpath].filemask = BitOr(@, 1),
                                  !.paths[newpath].pathnames[1] = oldpath]
                tn == IF type_changed
                      THEN [tn0 EXCEPT !.paths[oldpath].stages[1] = NullVersion,
                                       !.paths[oldpath].filemask = BitAnd(@, 6)]
                      ELSE IF source_deleted THEN RenameDelete(tn0)
                      ELSE [tn0 EXCEPT
                              !.paths[newpath].stages[other_source_index + 1] =
                                  oldinfo.stages[other_source_index + 1],
                              !.paths[newpath].filemask = BitOr(@, old_sidemask),
                              !.paths[newpath].pathnames[other_source_index + 1] = oldpath]
            IN IF ~has_old THEN Loop(t, clean_merge, i + 1)
               ELSE IF oldinfo.clean THEN Loop(t, clean_merge, i + 1)
               ELSE IF i + 1 <= Len(queue) /\ queue[i + 1].one.path = oldpath
               THEN IF ~has_new \/ ~strmap_contains(t.paths, other)
                    THEN Stop("process_renames: no record at a rename target")
                    ELSE IF newpath = other THEN Loop(t11, clean_merge, i + 1)
                    ELSE Merged12(handle_content_merge(opt, t, oldpath, oldinfo.stages[1],
                                                       side1.stages[2], side2.stages[3],
                                                       pathnames12, 1))
               ELSE IF ~has_new THEN Stop("process_renames: assert(newinfo)")
               ELSE IF newinfo.clean THEN Stop("process_renames: assert(!newinfo->merged.clean)")
               ELSE IF target_index \notin {1, 2}
               THEN Stop("process_renames: assert(target_index == 1 || target_index == 2)")
               ELSE IF ~(source_deleted \/ BitAnd(oldinfo.filemask, old_sidemask) # 0)
               THEN Stop("process_renames: assert(source_deleted || oldinfo->filemask & old_sidemask)")
               ELSE IF collision /\ ~source_deleted
               THEN Loop(tc(handle_content_merge(opt, t0, oldpath,
                                                 t0.paths[pathnames[1]].stages[1],
                                                 t0.paths[pathnames[2]].stages[2],
                                                 t0.paths[pathnames[3]].stages[3],
                                                 pathnames, 1)),
                         clean_merge, i + 1)
               ELSE IF collision /\ source_deleted
               THEN Loop(RenameDelete(t0), clean_merge, i + 1)
               ELSE Loop(tn, clean_merge, i + 1)
    IN Loop(s, 1, 1)

\* clean &= x, for the int x a callee returned (-1 has every bit set).
AndClean(clean, x) == IF x = 0 THEN 0 ELSE IF x < 0 THEN clean ELSE BitAnd(clean, x)

\* detect_and_process_renames() up to and including the QSORT of the
\* combined queue: the state, the queue, the clean flag so far, and whether
\* process_renames() is still to run (FALSE on the paths to cleanup).
detect_and_collect_renames(opt, s) ==
    LET Skip(t, clean) == [s |-> t, queue |-> <<>>, clean |-> clean, process |-> FALSE]
        need_dir_renames ==
            opt.detect_directory_renames \in {MERGE_DIRECTORY_RENAMES_TRUE,
                                              MERGE_DIRECTORY_RENAMES_CONFLICT}
        \* c: after collect_renames() for both sides
        Sorted(c) ==
            [s |-> c.s,
             queue |-> SortBy(c.queue, {p \in Pairs(c.queue) : compare_pairs(p[1], p[2]) < 0}),
             clean |-> c.clean, process |-> c.s.failed = <<>>]
        Add(acc, c) ==
            [acc EXCEPT !.s = c.s, !.queue = c.queue, !.clean = AndClean(@, c.clean)]
        \* collect_renames() for side and then for the sides after it; the
        \* directory renames of the other side apply, and those of side exclude
        RECURSIVE Collect(_, _)
        Collect(acc, side) ==
            IF side > 2 THEN Sorted(acc)
            ELSE IF acc.s.failed # <<>> THEN Skip(acc.s, acc.clean0)
            ELSE Collect(Add(acc, collect_renames(opt, acc.s, acc.queue, side,
                                                  acc.dir_renames[3 - side],
                                                  acc.dir_renames[side])),
                         side + 1)
        Got(g, side, r) ==
            [s |-> r.s, clean |-> r.clean,
             dir_renames |-> [g.dir_renames EXCEPT ![side] = r.dir_renames]]
        RECURSIVE GetDirs(_, _)
        GetDirs(g, side) ==
            IF side > 2 THEN g
            ELSE GetDirs(Got(g, side, get_directory_renames(opt, g.s, side, g.clean)),
                         side + 1)
        Directories(g) ==
            [s |-> [g.s EXCEPT !.renames.dir_renames = g.dir_renames],
             queue |-> <<>>, clean0 |-> g.clean, clean |-> g.clean,
             dir_renames |-> handle_directory_level_conflicts(g.s, g.dir_renames[1],
                                                              g.dir_renames[2])]
        \* u: the cached pairs are back in the queues
        Start(u) ==
            IF need_dir_renames
            THEN Directories(GetDirs([s |-> u, clean |-> 1,
                                      dir_renames |-> << <<>>, <<>> >>], 1))
            ELSE [s |-> u, queue |-> <<>>, clean0 |-> 1, clean |-> 1,
                  dir_renames |-> << <<>>, <<>> >>]
        Detected(d) ==
            IF d.s.renames.redo_after_renames # 0 /\ d.ran # 0 THEN Skip(d.s, 1)
            ELSE Collect(Start([d.s EXCEPT
                    !.renames.pairs[1] = use_cached_pairs(d.s.renames.cached_pairs[1], @),
                    !.renames.pairs[2] = use_cached_pairs(d.s.renames.cached_pairs[2], @)]),
                         1)
        Second(d1, d2) == [s |-> d2.s, ran |-> BitOr(d1.ran, d2.ran)]
        First(d1) == Second(d1, detect_regular_renames(opt, d1.s, 2))
    IN IF ~merge_detect_rename(opt) THEN Skip(s, 1)
       ELSE IF ~possible_renames(s.renames) THEN Skip(s, 1)
       ELSE Detected(First(detect_regular_renames(opt, s, 1)))

\* The rest of detect_and_process_renames(): process_renames() and cleanup.
process_collected_renames(opt, d) ==
    LET Cleanup(t, clean) ==
            [s |-> [t EXCEPT !.renames.pairs = << <<>>, <<>> >>], clean |-> clean]
        Processed(p) == Cleanup(p.s, AndClean(d.clean, p.clean_merge))
    IN IF d.process THEN Processed(process_renames(opt, d.s, d.queue))
       ELSE Cleanup(d.s, d.clean)

\* Returns the state and the clean flag of the rename phase.
detect_and_process_renames(opt, s) ==
    process_collected_renames(opt, detect_and_collect_renames(opt, s))

----------------------------------------------------------------------------
(* Tree builder *)

\* A faulty comparator: the order of strcmp() on the paths as they are.
sort_dirs_next_to_their_children_strcmp(one, two) == StrCmp(one, two)

\* qsort comparator of process_entries(): a string that ends compares as
\* though it continued with '/'.
sort_dirs_next_to_their_children(one, two) ==
    LET Byte(s, i) == Ord(IF i < Len(s) THEN s[i + 1] ELSE "/")
        Cmp(i, c) == IF c[1] = c[2] THEN (IF i < Len(one) THEN 1 ELSE -1) ELSE c[1] - c[2]
        At(i) == Cmp(i, [k \in 1..2 |-> Byte(IF k = 1 THEN one ELSE two, i)])
    IN At(CommonPrefixLen(one, two, 0))

\* A faulty blob_unchanged: the blobs are compared without normalization.
blob_unchanged_exact(base, side) == base.mode = side.mode /\ base.oid = side.oid

\* renormalize_buffer() changes a buffer iff it holds CRLF line endings.
blob_unchanged(base, side) ==
    IF base.mode # side.mode THEN FALSE
    ELSE IF base.oid = side.oid THEN TRUE
    ELSE (Eol(base.oid.blob) = 1 \/ Eol(side.oid.blob) = 1)
         /\ Renormalize(base.oid.blob) = Renormalize(side.oid.blob)

\* string_list_sort() of a list without a comparison function of its own:
\* the order of strcmp() on the names.
string_list_sort(list) ==
    SortBy(list, {p \in Pairs(list) : StrCmp(p[1].name, p[2].name) < 0})

\* The id of the tree written from the entries of versions after offset.
write_tree(versions, offset) ==
    TreeOid(string_list_sort(SubSeq(versions, offset + 1, Len(versions))))

NullPtr == StrPtr(NoTarget, -1)

\* struct directory_versions; a version is the name and the result it
\* points to.
FreshDirMetadata ==
    [versions |-> <<>>, offsets |-> <<>>, last_directory |-> NullPtr,
     last_directory_len |-> 0]

record_entry_for_tree(t, path, ci) ==
    LET basename == SubSeq(path, ci.basename_offset + 1, Len(path))
        u == IF HasSlash(basename)
             THEN [t EXCEPT !.s = Fail(@, "record_entry_for_tree: basename holds a slash")]
             ELSE t
    IN IF ci.is_null THEN t
       ELSE IF ~ci.clean /\ ci.filemask = 0 THEN t
       ELSE [u EXCEPT !.info.versions =
               Append(@, [name |-> basename, mode |-> ci.result.mode, oid |-> ci.result.oid])]

\* t holds the state (s) and the directory_versions (info).
write_completed_directories(t, new_directory_name) ==
    LET info == t.info
        last == info.last_directory
        Push(list, name, at) == Append(list, [string |-> name, util |-> at])
        known == strmap_contains(t.s.paths, last.str)
        prev_dir(offsets1) == IF offsets1 = <<>> THEN NullPtr
                              ELSE offsets1[Len(offsets1)].string
        \* s1, versions1, offsets1: the last directory is written and popped
        Popped(s1, versions1, offsets1, wrote_a_new_tree, oid) ==
            [s |-> s1,
             info |-> [versions |-> IF wrote_a_new_tree
                                    THEN Append(versions1,
                                                [name |-> BaseOf(last.str), mode |-> S_IFDIR,
                                                 oid |-> oid])
                                    ELSE versions1,
                       offsets |-> IF new_directory_name # prev_dir(offsets1)
                                   THEN Push(offsets1, new_directory_name, Len(versions1))
                                   ELSE offsets1,
                       last_directory |-> new_directory_name,
                       last_directory_len |-> Len(new_directory_name.str)]]
        Closed(s1, offset, wrote_a_new_tree) ==
            WalkStep(s1, "close", last.str, wrote_a_new_tree,
                   [i \in 1..(Len(info.versions) - offset) |-> info.versions[offset + i].name],
                   info.offsets)
        Written(offset, wrote_a_new_tree, oid) ==
            Popped(Closed(IF wrote_a_new_tree
                          THEN [t.s EXCEPT !.paths[last.str].result =
                                               [oid |-> oid, mode |-> S_IFDIR]]
                          ELSE [t.s EXCEPT !.paths[last.str].is_null = TRUE],
                          offset, wrote_a_new_tree),
                   SubSeq(info.versions, 1, offset),
                   SubSeq(info.offsets, 1, Len(info.offsets) - 1),
                   wrote_a_new_tree, oid)
        Completed(offset) ==
            Written(offset, offset # Len(info.versions), write_tree(info.versions, offset))
    IN IF new_directory_name = last THEN t
       ELSE IF last = NullPtr \/ StrNEq(new_directory_name.str, last.str,
                                        info.last_directory_len)
       THEN [t EXCEPT !.info.last_directory = new_directory_name,
                      !.info.last_directory_len = Len(new_directory_name.str),
                      !.info.offsets = Push(@, new_directory_name, Len(info.versions))]
       ELSE IF ~known
       THEN [t EXCEPT !.s = Fail(@, "write_completed_directories: assert(dir_info)")]
       ELSE Completed(info.offsets[Len(info.offsets)].util)

----------------------------------------------------------------------------
(* Resolver (call_depth is 0: the merge is not a recursive one) *)

\* The record without what it holds for the roles that are directories.
\* A faulty ZeroDirectoryEntries: the directory bits stay.
ZeroDirectoryEntries_keeps_dirmask(ci) ==
    [ci EXCEPT !.stages = [i \in 1..3 |-> IF Bit(ci.filemask, i - 1) = 1 THEN ci.stages[i]
                                          ELSE NullVersion]]

ZeroDirectoryEntries(ci) ==
    [ci EXCEPT !.match_mask = BitAnd(@, BitNot(ci.dirmask)),
               !.dirmask = 0,
               !.stages = [i \in 1..3 |-> IF Bit(ci.filemask, i - 1) = 1 THEN ci.stages[i]
                                          ELSE NullVersion]]

\* A faulty end of process_entry(): an unclean record is not entered into
\* UNMERGED MAP.
FinishEntry_forgets(t, path, ci) ==
    record_entry_for_tree([t EXCEPT !.s.paths[path] = ci], path, ci)

\* A faulty end of process_entry(): every record is entered into UNMERGED
\* MAP, the clean ones too.
FinishEntry_registers_all(t, path, ci) ==
    record_entry_for_tree(
        [t EXCEPT !.s = [t.s EXCEPT !.paths[path] = ci,
                                    !.unmerged = strmap_put(@, path, ci.addr)]],
        path, ci)

\* A faulty end of process_entry(): the record is marked clean whatever the
\* resolution found.
FinishEntry_cleans(t, path, ci) ==
    record_entry_for_tree([t EXCEPT !.s.paths[path] = [ci EXCEPT !.clean = TRUE]],
                          path, [ci EXCEPT !.clean = TRUE])

\* The end of process_entry(): ci is the record at path.
FinishEntry(t, path, ci) ==
    LET s1 == [t.s EXCEPT !.paths[path] = ci]
        s2 == IF ci.clean THEN s1
              ELSE [s1 EXCEPT !.unmerged = strmap_put(@, path, ci.addr)]
    IN record_entry_for_tree([t EXCEPT !.s = s2], path, ci)

\* Two different items from (file/submodule/symlink): one or both move to
\* a path of their own.
DistinctTypes(opt, t, path, ci) ==
    LET o_mode == ci.stages[1].mode
        a_mode == ci.stages[2].mode
        b_mode == ci.stages[3].mode
        rename_a == S_ISREG(a_mode) \/ ~S_ISREG(b_mode)
        rename_b == ~S_ISREG(a_mode)
        c0 == [ci EXCEPT !.clean = FALSE]
        n0 == [c0 EXCEPT !.addr = t.s.nalloc + 1, !.result = c0.stages[3],
                         !.stages[2] = NullVersion, !.filemask = 5]
        new_ci == IF FileType(b_mode) # FileType(o_mode)
                  THEN [n0 EXCEPT !.stages[1] = NullVersion, !.filemask = 4] ELSE n0
        a0 == [c0 EXCEPT !.result = c0.stages[2], !.stages[3] = NullVersion, !.filemask = 3]
        a_ci == IF FileType(a_mode) # FileType(o_mode)
                THEN [a0 EXCEPT !.stages[1] = NullVersion, !.filemask = 2] ELSE a0
        \* s3: new_ci is at b_path
        Entered(s3, b_path) ==
            [IF rename_a /\ rename_b THEN RemovePath(s3, path) ELSE s3
               EXCEPT !.unmerged = strmap_put(@, b_path, new_ci.addr)]
        \* s2: a_ci is at its path
        PlacedB(s2, a_path, b_path) ==
            FinishEntry(
                record_entry_for_tree(
                    [t EXCEPT !.s = Entered(PutPath(s2, StrPtr(b_path, t.s.nalloc + 3), new_ci),
                                            b_path)],
                    b_path, new_ci),
                IF rename_a THEN a_path ELSE path, a_ci)
        PlacedA(s2, a_path) ==
            PlacedB(s2, a_path,
                    IF rename_b THEN unique_path(s2.paths, path, opt.branch2) ELSE path)
        Named(s1, a_path) ==
            PlacedA(IF rename_a THEN PutPath(s1, StrPtr(a_path, t.s.nalloc + 2), a_ci) ELSE s1,
                    a_path)
        Told(s1) == Named(s1, unique_path(s1.paths, path, opt.branch1))
    IN Told([path_msg(t.s, path, <<"CONFLICT (distinct types)", path,
                                   IF rename_a /\ rename_b THEN "both" ELSE "one">>)
               EXCEPT !.nalloc = @ + 3, !.paths[path] = a_ci])

process_entry(opt, t, path_in) ==
    LET s == t.s
        ci0 == s.paths[path_in]
        \* a directory/file conflict whose directory is gone, or is still there
        vanished == ci0.df_conflict /\ ci0.result.mode = 0
        in_way == ci0.df_conflict /\ ci0.result.mode # 0
        df_file_index == IF in_way THEN (IF Bit(ci0.dirmask, 1) = 1 THEN 2 ELSE 1) ELSE 0
        branch == IF df_file_index = 1 THEN opt.branch1 ELSE opt.branch2
        moved == unique_path(s.paths, path_in, branch)
        new_ci == [ZeroDirectoryEntries(ci0) EXCEPT !.addr = s.nalloc + 2]
        s_moved == path_msg(PutPath([s EXCEPT !.nalloc = @ + 2,
                                              !.paths[path_in].filemask = 0],
                                    StrPtr(moved, s.nalloc + 1), new_ci),
                            moved,
                            <<"CONFLICT (file/directory)", path_in, branch, moved>>)
        Failing(u, what) == [u EXCEPT !.s = Fail(@, what)]
        \* ci->match_mask
        Matched(t0, path, ci) ==
            LET othermask == BitAnd(7, BitNot(ci.match_mask))
                side_m == IF othermask = 4 THEN 2 ELSE 1
                matched == IF ci.match_mask = 6
                           THEN [ci EXCEPT !.clean = TRUE, !.result = ci.stages[2]]
                           ELSE [ci EXCEPT !.clean = TRUE,
                                           !.is_null = (ci.filemask = ci.match_mask),
                                           !.result = ci.stages[side_m + 1]]
                t_matched ==
                    IF ci.match_mask # 6 /\ othermask \notin {2, 4}
                    THEN Failing(t0, "process_entry: assert(othermask == 2 || othermask == 4)")
                    ELSE IF ci.match_mask # 6 /\ matched.is_null # (matched.result.mode = 0)
                    THEN Failing(t0, "process_entry: assert(is_null == !result.mode)")
                    ELSE t0
            IN FinishEntry(t_matched, path, matched)
        \* content merge; h: what handle_content_merge() returned
        Merged(t0, path, ci, h) ==
            LET clean_merge == h.ret # 0
                m0 == [ci EXCEPT !.clean = clean_merge /\ ~ci.df_conflict /\ ~ci.path_conflict,
                                 !.result = h.result,
                                 !.is_null = (h.result.mode = 0)]
                m1 == IF clean_merge /\ ci.df_conflict /\ df_file_index \in {1, 2}
                      THEN [m0 EXCEPT !.filemask = 2 ^ df_file_index,
                                      !.stages[df_file_index + 1] = h.result]
                      ELSE m0
                reason == IF S_ISGITLINK(h.result.mode) THEN "submodule"
                          ELSE IF m1.filemask = 6 THEN "add/add" ELSE "content"
                s_m0 == IF clean_merge THEN h.s
                        ELSE path_msg(h.s, path, <<"CONFLICT: Merge conflict", reason, path>>)
                s_m1 == IF clean_merge /\ ci.df_conflict /\ df_file_index \notin {1, 2}
                        THEN Fail(s_m0,
                                  "process_entry: assert(df_file_index == 1 || df_file_index == 2)")
                        ELSE s_m0
            IN FinishEntry([t0 EXCEPT !.s = s_m1], path, m1)
        \* modify/delete
        ModifyDelete(t0, path, ci) ==
            LET side_d == IF ci.filemask = 5 THEN 2 ELSE 1
                modify_branch == IF side_d = 1 THEN opt.branch1 ELSE opt.branch2
                delete_branch == IF side_d = 1 THEN opt.branch2 ELSE opt.branch1
                d0 == [ci EXCEPT !.result = ci.stages[side_d + 1], !.clean = FALSE]
                unchanged ==
                    opt.renormalize /\ blob_unchanged(ci.stages[1], ci.stages[side_d + 1])
                d1 == IF unchanged THEN [d0 EXCEPT !.is_null = TRUE, !.clean = TRUE] ELSE d0
                s_d == IF unchanged
                          \/ (ci.path_conflict /\ ci.stages[1].oid = ci.stages[side_d + 1].oid)
                       THEN t0.s
                       ELSE path_msg(t0.s, path,
                                     <<"CONFLICT (modify/delete)", path, delete_branch,
                                       modify_branch, modify_branch, path>>)
            IN FinishEntry([t0 EXCEPT !.s = s_d], path, d1)
        \* added on one side
        Added(ci, side_a) == [ci EXCEPT !.result = ci.stages[side_a + 1],
                                        !.clean = ~ci.df_conflict /\ ~ci.path_conflict]
        \* deleted on both sides
        Deleted(ci) == [ci EXCEPT !.is_null = TRUE, !.result = NullVersion,
                                  !.clean = ~ci.path_conflict]
        \* ci: the record at path, a file and no directory
        Resolve(t0, path, ci) ==
            IF ci.match_mask # 0 THEN Matched(t0, path, ci)
            ELSE IF ci.filemask >= 6
                    /\ FileType(ci.stages[2].mode) # FileType(ci.stages[3].mode)
            THEN DistinctTypes(opt, t0, path, ci)
            ELSE IF ci.filemask >= 6
            THEN Merged(t0, path, ci,
                        handle_content_merge(opt, t0.s, path, ci.stages[1], ci.stages[2],
                                             ci.stages[3], ci.pathnames, 0))
            ELSE IF ci.filemask \in {3, 5} THEN ModifyDelete(t0, path, ci)
            ELSE IF ci.filemask \in {2, 4}
            THEN FinishEntry(t0, path, Added(ci, IF ci.filemask = 4 THEN 2 ELSE 1))
            ELSE IF ci.filemask = 1 THEN FinishEntry(t0, path, Deleted(ci))
            ELSE FinishEntry(t0, path, ci)
    IN IF ci0.clean THEN Failing(t, "process_entry: assert(!ci->merged.clean)")
       ELSE IF ci0.filemask = 0 THEN t
       ELSE IF in_way /\ ci0.result.mode # S_IFDIR
       THEN Failing(t, "process_entry: assert(ci->merged.result.mode == S_IFDIR)")
       ELSE IF in_way /\ ci0.filemask = 1
       THEN [t EXCEPT !.s.paths[path_in].filemask = 0]
       ELSE Resolve(IF in_way THEN [t EXCEPT !.s = s_moved] ELSE t,
                    IF in_way THEN moved ELSE path_in,
                    IF vanished
                    THEN [ZeroDirectoryEntries(ci0) EXCEPT !.df_conflict = FALSE,
                                                           !.clean = FALSE,
                                                           !.is_null = FALSE]
                    ELSE IF in_way THEN new_ci ELSE ci0)

\* Returns the state and the id of the result tree.
process_entries(opt, s) ==
    LET \* ci: the record at path before the completed directories are written
        Entry(ci, t1, path) ==
            IF t1.s.failed # <<>> THEN t1
            ELSE IF ci.clean THEN record_entry_for_tree(t1, path, t1.s.paths[path])
            ELSE process_entry(opt, t1, path)
        Reached(t2, path) ==
            [t2 EXCEPT !.s = WalkStep(@, "entry", path, FALSE, <<>>, t2.info.offsets)]
        RECURSIVE Each(_, _, _)
        Each(t, plist, i) ==
            IF i = 0 \/ t.s.failed # <<>> THEN t
            ELSE Each(Entry(t.s.paths[plist[i]],
                            Reached(write_completed_directories(
                                        t, t.s.paths[plist[i]].directory_name),
                                    plist[i]),
                            plist[i]),
                      plist, i - 1)
        balanced(done) == Len(done.info.offsets) = 1 /\ done.info.offsets[1].util = 0
        Finish(done) ==
            IF done.s.failed # <<>> THEN [s |-> done.s, result_oid |-> null_oid]
            ELSE IF ~balanced(done)
            THEN [s |-> Fail(done.s, "BUG: dir_metadata accounting completely off"),
                  result_oid |-> null_oid]
            ELSE [s |-> done.s, result_oid |-> write_tree(done.info.versions, 0)]
        Ended(done) ==
            [done EXCEPT !.s = IF @.failed # <<>> THEN @
                               ELSE WalkStep(@, "end", toplevel_dir.str, TRUE,
                                           [i \in 1..Len(done.info.versions) |->
                                               done.info.versions[i].name],
                                           done.info.offsets)]
        Sorted(plist) ==
            Finish(Ended(Each([s |-> [s EXCEPT !.walk = <<>>], info |-> FreshDirMetadata],
                              plist, Len(plist))))
    IN IF DOMAIN s.paths = {} THEN [s |-> [s EXCEPT !.walk = <<>>], result_oid |-> empty_tree]
       ELSE Sorted(SortBy(SetToSeq(DOMAIN s.paths),
                          {p \in (DOMAIN s.paths) \X (DOMAIN s.paths) :
                              sort_dirs_next_to_their_children(p[1], p[2]) < 0}))

----------------------------------------------------------------------------
(* Orchestration *)

\* A faulty clear_or_reinit_internal_opts: the rename caches of both sides
\* are kept whatever side is valid.
clear_or_reinit_internal_opts_keeps_caches(s, reinitialize) ==
    [s EXCEPT
       !.paths = <<>>, !.keys = <<>>, !.unmerged = <<>>,
       !.output = IF reinitialize THEN @ ELSE <<>>,
       !.renames = [s.renames EXCEPT
           !.relevant_sources = << <<>>, <<>> >>,
           !.dirs_removed = << <<>>, <<>> >>,
           !.possible_trivial_merges = << <<>>, <<>> >>,
           !.target_dirs = << {}, {} >>,
           !.trivial_merges_okay = <<TRUE, TRUE>>,
           !.dir_renames = << <<>>, <<>> >>,
           !.cached_pairs_valid_side = 0,
           !.dir_rename_mask = 0]]

\* A faulty clear_or_reinit_internal_opts: the rename caches of both sides
\* are dropped whatever side is valid.
clear_or_reinit_internal_opts_drops_caches(s, reinitialize) ==
    [s EXCEPT
       !.paths = <<>>, !.keys = <<>>, !.unmerged = <<>>,
       !.output = IF reinitialize THEN @ ELSE <<>>,
       !.renames = [s.renames EXCEPT
           !.relevant_sources = << <<>>, <<>> >>,
           !.dirs_removed = << <<>>, <<>> >>,
           !.possible_trivial_merges = << <<>>, <<>> >>,
           !.target_dirs = << {}, {} >>,
           !.trivial_merges_okay = <<TRUE, TRUE>>,
           !.cached_target_names = << {}, {} >>,
           !.cached_pairs = << <<>>, <<>> >>,
           !.cached_irrelevant = << {}, {} >>,
           !.dir_rename_count = << <<>>, <<>> >>,
           !.dir_renames = << <<>>, <<>> >>,
           !.cached_pairs_valid_side = 0,
           !.dir_rename_mask = 0]]

clear_or_reinit_internal_opts(s, reinitialize) ==
    LET r == s.renames
        valid == r.cached_pairs_valid_side
        Keep(i) == ~(i # valid /\ valid # -1)
        PerSide(old, empty) == <<IF Keep(1) THEN old[1] ELSE empty,
                                 IF Keep(2) THEN old[2] ELSE empty>>
        s0 == IF ~reinitialize /\ valid # 0
              THEN Fail(s, "clear_or_reinit_internal_opts: assert(cached_pairs_valid_side == 0)")
              ELSE s
    IN [s0 EXCEPT
          !.paths = <<>>, !.keys = <<>>, !.unmerged = <<>>,
          !.output = IF reinitialize THEN @ ELSE <<>>,
          !.renames = [r EXCEPT
              !.relevant_sources = << <<>>, <<>> >>,
              !.dirs_removed = << <<>>, <<>> >>,
              !.possible_trivial_merges = << <<>>, <<>> >>,
              !.target_dirs = << {}, {} >>,
              !.trivial_merges_okay = <<TRUE, TRUE>>,
              !.cached_target_names = PerSide(@, {}),
              !.cached_pairs = PerSide(@, <<>>),
              !.cached_irrelevant = PerSide(@, {}),
              !.dir_rename_count = PerSide(@, <<>>),
              !.dir_renames = << <<>>, <<>> >>,
              !.cached_pairs_valid_side = 0,
              !.dir_rename_mask = 0]]

\* The engine state with cached_pairs_valid_side set from the previous
\* merge's trees and result (res is the merge_result handed in).
\* A faulty merge_check_renames_reusable: the cache of side 1 is taken to
\* be valid whatever trees the new merge is given.
merge_check_renames_reusable_always(s, res, merge_base, side1, side2) ==
    IF ~res.initialized THEN s
    ELSE [s EXCEPT !.renames.cached_pairs_valid_side = 1]

merge_check_renames_reusable(s, res, merge_base, side1, side2) ==
    LET merge_trees == s.renames.merge_trees
    IN IF ~res.initialized THEN s
       ELSE [s EXCEPT !.renames.cached_pairs_valid_side =
               IF merge_base = merge_trees[3] /\ side1 = res.tree THEN 1
               ELSE IF merge_base = merge_trees[2] /\ side2 = res.tree THEN 2
               ELSE 0]

merge_start(s, res) ==
    IF res.initialized THEN clear_or_reinit_internal_opts(s, TRUE)
    ELSE [FreshPriv EXCEPT !.nalloc = s.nalloc]

\* merge_incore_nonrecursive() up to the call of
\* merge_ort_nonrecursive_internal().
merge_incore_start(s, res, merge_base, side1, side2) ==
    LET checked == merge_check_renames_reusable(s, res, merge_base, side1, side2)
    IN [merge_start(checked, res)
        EXCEPT !.renames.merge_trees = <<merge_base, side1, side2>>,
               !.renames.reused_side = IF res.initialized
                                       THEN checked.renames.cached_pairs_valid_side ELSE 0]

MaxRedo == 2

\* Returns the state, the clean flag and the result tree.
merge_ort_nonrecursive_internal(opt, s, merge_base, side1, side2) ==
    LET RECURSIVE Redo(_, _)
        Resolved(clean, e) ==
            [s |-> e.s,
             clean |-> IF DOMAIN e.s.unmerged = {} THEN clean ELSE 0,
             tree |-> e.result_oid]
        Detected(d, n) ==
            IF d.s.renames.redo_after_renames = 2 /\ n < MaxRedo /\ d.s.failed = <<>>
            THEN Redo(clear_or_reinit_internal_opts(d.s, TRUE), n + 1)
            ELSE Resolved(d.clean, process_entries(opt, d.s))
        Redo(t, n) ==
            Detected(detect_and_process_renames(
                         opt, collect_merge_info(t, merge_base, side1, side2)),
                     n)
    IN Redo(s, 0)

\* A merge on a fresh engine instance.
merge_incore_nonrecursive(opt, merge_base, side1, side2) ==
    merge_ort_nonrecursive_internal(
        opt,
        merge_incore_start(FreshPriv, [initialized |-> FALSE], merge_base, side1, side2),
        merge_base, side1, side2)

----------------------------------------------------------------------------
(* The trees, options and collaborator outcomes explored *)

File(path, blob) == [path |-> path, mode |-> ModeReg, blob |-> blob]

P0 == Blob(1, 0, 0, 0)      \* a text
P1 == Blob(1, 0, 1, 0)      \* ... with its first hunk changed
P2 == Blob(1, 0, 0, 1)      \* ... with its second hunk changed
P3 == Blob(1, 0, 2, 0)      \* ... with its first hunk changed differently
PC == Blob(1, 1, 0, 0)      \* ... with CRLF line endings
Q0 == Blob(2, 0, 0, 0)      \* an unrelated text
R0 == Blob(3, 0, 0, 0)      \* another unrelated text
S0 == Blob(4, 0, 0, 0)      \* and one more

a_x == <<"a", "/", "x">>
a_y == <<"a", "/", "y">>
a_n == <<"a", "/", "n">>
a_t == <<"a", ".", "t">>
b_x == <<"b", "/", "x">>
c_y == <<"c", "/", "y">>
f_a == <<"a">>
f_f == <<"f">>
f_g == <<"g">>
g_x == <<"g", "/", "x">>
a_g == <<"a", "/", "g">>
c_g == <<"c", "/", "g">>
d_x == <<"d", "/", "x">>
d_y == <<"d", "/", "y">>
f_y == <<"f", "/", "y">>
a_b_x == <<"a", "/", "b", "/", "x">>
a_b_y == <<"a", "/", "b", "/", "y">>
a_b_n == <<"a", "/", "b", "/", "n">>

\* The files of a directory 'd' with many entries, all alike.
d_names ==
    {<<c>> : c \in {"a", "b", "c", "d", "f", "g", "n", "o", "t", "x"}}
    \cup {<<c, "0">> : c \in {"a", "b", "c", "d", "f", "g", "n", "o", "t", "x"}}

LargeDir(names) == {File(<<"d", "/">> \o n, Q0) : n \in names}

\* ... and with d/x changed.
LargeDirChanged(names) == (LargeDir(names) \ {File(d_x, Q0)}) \cup {File(d_x, R0)}

\* Trees every merge may take for any of its three roles.
Trees ==
    << {},                                          \* the empty tree
       {File(a_x, P0), File(a_t, Q0)},              \* directory 'a' next to file 'a.t'
       {File(a_x, P1), File(a_t, Q0)},              \* a/x modified
       {File(a_x, P3), File(a_t, Q0)},              \* a/x modified differently
       {File(b_x, P0), File(a_t, Q0)},              \* directory a renamed to b
       {File(f_a, P0), File(a_t, Q0)},              \* directory a replaced by file a
       {File(a_x, PC), File(a_t, Q0)} >>            \* a/x with CRLF line endings

\* Further merges: <<base, side 1, side 2>>.
Scenarios ==
    << \* a directory rename and a file added to the old directory
       <<{File(a_x, P0)}, {File(b_x, P0)}, {File(a_x, P0), File(a_n, Q0)}>>,
       <<{File(a_x, P0)}, {File(a_x, P0), File(a_n, Q0)}, {File(b_x, P0)}>>,
       \* a directory whose files went to two directories, and a file added to it
       <<{File(a_x, P0), File(a_y, R0)}, {File(b_x, P0), File(c_y, R0)},
         {File(a_x, P0), File(a_y, R0), File(a_n, Q0)}>>,
       <<{File(a_x, P0), File(a_y, R0)}, {File(a_x, P0), File(a_y, R0), File(a_n, Q0)},
         {File(b_x, P0), File(c_y, R0)}>>,
       \* a rename onto a path that is a directory on the other side
       <<{File(f_f, P0)}, {File(f_g, P0)}, {File(f_f, P1), File(g_x, Q0)}>>,
       \* a rename on one side, a delete on the other
       <<{File(f_f, P0)}, {File(f_g, P0)}, {}>>,
       <<{File(f_f, P0)}, {File(f_g, PC)}, {}>>,
       \* a rename on one side, a change on the other
       <<{File(f_f, P0)}, {File(f_g, P1)}, {File(f_f, P2)}>>,
       \* renamed to two different names
       <<{File(f_f, P0)}, {File(f_g, P1)}, {File(f_a, P2)}>>,
       \* changed on both sides, in different hunks
       <<{File(f_f, P0)}, {File(f_f, P1)}, {File(f_f, P2)}>>,
       \* line endings changed on one side, deleted on the other
       <<{File(f_f, P0)}, {File(f_f, PC)}, {}>>,
       \* a/b's files went to two directories, a was renamed to c, files added
       \* to a/b and to a
       <<{File(a_b_x, P0), File(a_b_y, R0), File(a_g, Q0)},
         {File(d_x, P0), File(f_y, R0), File(c_g, Q0)},
         {File(a_b_x, P0), File(a_b_y, R0), File(a_g, Q0), File(a_b_n, S0),
          File(a_n, P3)}>>,
       \* a file changed on side 1 and deleted on side 2, next to a directory
       \* of twenty files that only side 2 changed
       <<{File(f_f, P0)} \cup LargeDir(d_names), {File(f_f, P1)} \cup LargeDir(d_names),
         LargeDirChanged(d_names)>>,
       \* ... and the same with nineteen files in the directory
       <<{File(f_f, P0)} \cup LargeDir(d_names \ {<<"a">>}),
         {File(f_f, P1)} \cup LargeDir(d_names \ {<<"a">>}),
         LargeDirChanged(d_names \ {<<"a">>})>>,
       \* a file changed on side 1 and moved by side 2 into the directory of
       \* twenty files
       <<{File(f_f, P0)} \cup LargeDir(d_names), {File(f_f, P1)} \cup LargeDir(d_names),
         {File(d_y, P0)} \cup LargeDir(d_names)>>,
       \* a file changed on side 1 next to the directory that side 2 changed
       <<{File(f_f, P0)} \cup LargeDir(d_names), {File(f_f, P1)} \cup LargeDir(d_names),
         {File(f_f, P0)} \cup LargeDirChanged(d_names)>>,
       \* a file that one side replaced by a directory holding another file
       <<{File(f_a, P0)}, {File(f_a, P0)}, {File(a_x, R0)}>>,
       \* ... and that the other side deleted
       <<{File(f_a, P0)}, {File(a_x, R0)}, {}>>,
       \* ... next to a file changed on side 1 and renamed on side 2
       <<{File(f_a, P0), File(f_f, Q0)}, {File(f_a, P0), File(f_f, Blob(2, 0, 1, 0))},
         {File(a_x, R0), File(f_g, Q0)}>>,
       \* a file changed on side 1 only, and a file deleted on side 2 only
       <<{File(f_f, P0), File(f_g, Q0)}, {File(f_f, P1), File(f_g, Q0)}, {File(f_f, P0)}>>,
       \* a rename on side 1 to a path where side 2 added the same content,
       \* the source changed on side 2
       <<{File(f_f, P0)}, {File(f_g, P0)}, {File(f_f, P2), File(f_g, P0)}>>,
       \* a file changed on side 1 and moved by side 2 into the directory of
       \* twenty files, a subdirectory of which side 2 changed
       <<{File(f_f, P0), File(<<"d", "/", "1", "/", "x">>, Q0)} \cup LargeDir(d_names),
         {File(f_f, P1), File(<<"d", "/", "1", "/", "x">>, Q0)} \cup LargeDir(d_names),
         {File(d_y, P0), File(<<"d", "/", "1", "/", "x">>, R0)} \cup LargeDir(d_names)>>,
       \* a directory rename, and files added to the old directory and, under
       \* the same name, to the new one
       <<{File(a_x, P0)}, {File(b_x, P0)},
         {File(a_x, P0), File(a_n, Q0), File(<<"b", "/", "n">>, R0)}>>,
       \* two directories renamed into one, and files of one name added to both
       <<{File(a_x, P0), File(c_y, R0)}, {File(b_x, P0), File(<<"b", "/", "y">>, R0)},
         {File(a_x, P0), File(c_y, R0), File(a_n, Q0), File(<<"c", "/", "n">>, S0)}>>,
       \* a directory rename on side 1, and a subdirectory of the old directory
       \* replaced by a file on side 2
       <<{File(a_x, P0), File(<<"a", "/", "n", "/", "y">>, R0)},
         {File(b_x, P0), File(<<"b", "/", "n", "/", "y">>, R0)},
         {File(a_x, P0), File(a_n, Q0)}>>,
       \* a directory rename on side 1, and files added to the old directory
       \* and two directories beneath it on side 2
       <<{File(a_x, P0)}, {File(b_x, P0)},
         {File(a_x, P0), File(a_n, Q0), File(<<"a", "/", "d", "/", "c", "/", "n">>, R0)}>>
    >>

Inputs ==
    {<<MkTree(Trees[i]), MkTree(Trees[j]), MkTree(Trees[k])>> :
        i \in 1..Len(Trees), j \in 1..Len(Trees), k \in 1..Len(Trees)}
    \cup {<<MkTree(Scenarios[i][1]), MkTree(Scenarios[i][2]), MkTree(Scenarios[i][3])>> :
            i \in 1..Len(Scenarios)}

branch1 == <<"A">>
branch2 == <<"B", "/", "c">>

OptionSets ==
    {[branch1 |-> branch1, branch2 |-> branch2, detect_renames |-> TRUE,
      detect_directory_renames |-> d, renormalize |-> r] :
        d \in {MERGE_DIRECTORY_RENAMES_NONE, MERGE_DIRECTORY_RENAMES_CONFLICT,
               MERGE_DIRECTORY_RENAMES_TRUE},
        r \in BOOLEAN}

\* What the content merger and the object store do in a merge, the previous
\* content of storage the engine reads without having written it, and the
\* order in which the hash tables of rename counts are visited.
Envs ==
    {[merge |-> "ok", garbage |-> null_oid, order |-> "asc"],
     [merge |-> "ok", garbage |-> null_oid, order |-> "desc"],
     [merge |-> "fail", garbage |-> BlobOid(R0), order |-> "asc"],
     [merge |-> "nowrite", garbage |-> null_oid, order |-> "desc"]}

\* struct merge_options as the engine's functions receive it.
MkOpt(o, e) ==
    [branch1 |-> o.branch1, branch2 |-> o.branch2, detect_renames |-> o.detect_renames,
     detect_directory_renames |-> o.detect_directory_renames,
     renormalize |-> o.renormalize, env |-> e]

----------------------------------------------------------------------------
(* The engine as a state machine: the caller starts merges on one engine   *)
(* instance, and each merge runs its phases in order.                      *)

MaxMerges == 2

\* The collection phase is not started more often than this in one merge
\* (the 'goto redo' of merge_ort_nonrecursive_internal has no bound).
MaxCollections == 3

NoRenames == [queue |-> <<>>, clean |-> 1, process |-> FALSE]

\* The position after a step that leaves the engine in state s.
After(s, next) == IF s.failed # <<>> THEN "aborted" ELSE next

\* The trees, of Trees, that the next commit of a sequence may have.
NextTrees == {k \in 1..Len(Trees) : k \in {1, 3, 4, 5}}

\* The merges a caller starts: any of Inputs first, and then, as a rebase
\* or cherry-pick sequence does, a merge whose base is the previous side 2
\* and whose side 1 is the previous result (or the mirror image of that).
StartInputs ==
    IF nmerges = 0 THEN Inputs
    ELSE {<<args[3], result.tree, MkTree(Trees[k])>> : k \in NextTrees}
         \cup {<<args[2], MkTree(Trees[k]), result.tree>> : k \in NextTrees}

\* The collaborators behave in one way throughout a sequence of merges.
StartEnvs == IF nmerges = 0 THEN Envs ELSE {env}

\* No pick was made; memset(&result, 0, sizeof(result)) and
\* init_merge_options() leave both pointers NULL.
NoCaller == [picks |-> <<>>, opt_priv |-> FALSE, properly_initialized |-> FALSE]

Init ==
    /\ pc = "idle"
    /\ args = <<empty_tree, empty_tree, empty_tree>>
    /\ options \in OptionSets
    /\ priv = FreshPriv
    /\ renaming = NoRenames
    /\ result = [tree |-> null_oid, clean |-> 0, initialized |-> FALSE]
    /\ env \in {e \in Envs : e.merge = "ok"}
    /\ nmerges = 0
    /\ collections = 0
    /\ caller = NoCaller

\* merge_incore_nonrecursive(): reuse check, merge_start, merge_trees.
MergeStart ==
    /\ pc \in {"idle", "done"}
    /\ nmerges < MaxMerges
    /\ pc = "done" => result.clean = 1 /\ env.merge = "ok"
    /\ \E t \in StartInputs, e \in StartEnvs :
        /\ args' = t
        /\ env' = e
        /\ priv' = merge_incore_start(priv, result, t[1], t[2], t[3])
    /\ pc' = After(priv', "collect")
    /\ nmerges' = nmerges + 1
    /\ collections' = 0
    /\ result' = [result EXCEPT !.initialized = FALSE]
    /\ renaming' = NoRenames
    /\ UNCHANGED <<options, caller>>

CollectMergeInfo ==
    /\ pc = "collect"
    /\ collections < MaxCollections
    /\ collections' = collections + 1
    /\ priv' = collect_merge_info(priv, args[1], args[2], args[3])
    /\ pc' = After(priv', "renames")
    /\ UNCHANGED <<args, options, renaming, result, env, nmerges, caller>>

\* detect_and_process_renames() up to the sorted queue of renames.
DetectRenames ==
    /\ pc = "renames"
    /\ LET Collected(d) ==
               /\ priv' = d.s
               /\ renaming' = [queue |-> d.queue, clean |-> d.clean, process |-> d.process]
       IN Collected(detect_and_collect_renames(MkOpt(options, env), priv))
    /\ pc' = After(priv', "process_renames")
    /\ UNCHANGED <<args, options, result, env, nmerges, collections, caller>>

\* The rest of detect_and_process_renames(), and the redo check.
ProcessRenames ==
    /\ pc = "process_renames"
    /\ LET Redone(p, redo) ==
               /\ priv' = IF redo THEN clear_or_reinit_internal_opts(p.s, TRUE) ELSE p.s
               /\ result' = [result EXCEPT !.clean = p.clean]
               /\ renaming' = [renaming EXCEPT !.clean = p.clean]
               /\ pc' = After(p.s, IF redo THEN "collect" ELSE "entries")
           Processed(p) ==
               Redone(p, p.s.renames.redo_after_renames = 2 /\ p.s.failed = <<>>)
       IN Processed(process_collected_renames(
                        MkOpt(options, env),
                        [s |-> priv, queue |-> renaming.queue, clean |-> renaming.clean,
                         process |-> renaming.process]))
    /\ UNCHANGED <<args, options, env, nmerges, collections, caller>>

\* process_entries() and the return values of the merge.
ProcessEntries ==
    /\ pc = "entries"
    /\ LET Written(e) ==
               /\ priv' = e.s
               /\ result' = [tree |-> e.result_oid,
                             clean |-> IF DOMAIN e.s.unmerged = {} THEN result.clean ELSE 0,
                             initialized |-> TRUE]
       IN Written(process_entries(MkOpt(options, env), priv))
    /\ pc' = After(priv', "done")
    /\ UNCHANGED <<args, options, renaming, env, nmerges, collections, caller>>

Next ==
    \/ MergeStart
    \/ CollectMergeInfo
    \/ DetectRenames
    \/ ProcessRenames
    \/ ProcessEntries

Spec == Init /\ [][Next]_vars


\* ---------------------------------------------------------------------
\* Properties

Opt == MkOpt(options, env)
Finished == pc = "done"

\* A merge of three identical trees has finished.
IdenticalTrees == Finished /\ args[1] = args[2] /\ args[2] = args[3]

\* C1: merge_nonrecursive(T, T, T) is clean and its result tree has T's id,
\* for every tree T, one with a directory whose name is a prefix of a
\* sibling's name included.
C1_IdenticalTreesGiveTheTree ==
    IdenticalTrees => result.clean = 1 /\ result.tree = args[1]

\* A merge in which one side equals the base has finished.
OneSideIsBase == Finished /\ (args[2] = args[1] \/ args[3] = args[1])
OtherSide == IF args[2] = args[1] THEN args[3] ELSE args[2]

\* C2: when one side equals the base, the merge is clean and its result
\* is the other side's tree.
C2_UnchangedSideGivesOtherSide ==
    OneSideIsBase => result.clean = 1 /\ result.tree = OtherSide

\* The same merge with the two sides exchanged, on a fresh engine.
Swapped == merge_incore_nonrecursive(Opt, args[1], args[3], args[2])

\* C3: a clean merge of (B, X, Y) and the merge of (B, Y, X) give the same
\* result tree.
C3_CleanMergeCommutes ==
    (Finished /\ nmerges = 1 /\ result.clean = 1) => Swapped.tree = result.tree


\* A clean merge that combined changes of both sides.
C3_Witness ==
    /\ Finished /\ nmerges = 1 /\ result.clean = 1
    /\ result.tree \notin {args[1], args[2], args[3]}
    /\ \E p \in DOMAIN priv.paths :
          LET ci == priv.paths[p]
          IN ci.filemask = 7 /\ ci.match_mask = 0
             /\ ci.result.oid \notin {ci.stages[k].oid : k \in 1..3}

\* The second merge of a sequence has finished, and merge_start() had
\* found the rename cache of one side reusable for it.
Reused ==
    /\ Finished /\ nmerges = 2 /\ env.merge = "ok"
    /\ priv.renames.reused_side \in {1, 2}

\* The merge just finished, run on a fresh engine with empty caches.
Fresh == merge_incore_nonrecursive(Opt, args[1], args[2], args[3])

\* C4: a merge that reuses the renames cached by the previous merge on the
\* same engine gives the result tree that a fresh engine gives.
C4_CacheReuseKeepsResult ==
    Reused => Fresh.tree = result.tree /\ Fresh.clean = result.clean

\* The second merge reused a cached rename of side 1 and merged a change
\* of side 2 into the renamed file.
C4_Witness ==
    /\ Reused /\ priv.renames.reused_side = 1
    /\ priv.renames.cached_pairs[1] # <<>>
    /\ args[3] # args[1]
    /\ result.tree \notin {args[2], args[3]}



Records == {priv.paths[p] : p \in DOMAIN priv.paths}
Unclean(ci) == ~ci.clean

\* C5: the clean value a merge returns is true exactly when every PATH MAP
\* record is clean and UNMERGED MAP is empty.
C5_CleanIsConjunctionOfRecords ==
    Finished =>
        (result.clean = 1 <=>
            (\A ci \in Records : ci.clean) /\ DOMAIN priv.unmerged = {})

\* C5, as the code has it: the merge is clean exactly when the rename phase
\* was clean and every record that holds a file is clean; the placeholder of
\* a directory that was walked into stays unclean and does not count.
C5_CleanIsRenamePhaseAndFileRecords ==
    Finished =>
        (result.clean = 1 <=>
            /\ renaming.clean = 1
            /\ \A ci \in Records : ci.clean \/ ci.filemask = 0)

\* A clean merge whose PATH MAP holds the unclean placeholder of a directory.
C5_Witness ==
    /\ Finished /\ result.clean = 1 /\ DOMAIN priv.unmerged = {}
    /\ \E ci \in Records : Unclean(ci) /\ ci.filemask = 0 /\ ci.dirmask # 0

\* An unclean merge in which every file record is clean: the rename phase
\* alone made it unclean.
C5_WitnessRenamePhase ==
    /\ Finished /\ result.clean = 0 /\ DOMAIN priv.unmerged = {}
    /\ \A ci \in Records : ci.clean \/ ci.filemask = 0

\* C6: after resolution the keys of UNMERGED MAP are the PATH MAP keys whose
\* record is unclean and holds a file, and each of them refers to the record
\* PATH MAP holds.
C6_UnmergedIsUncleanFiles ==
    Finished =>
        /\ DOMAIN priv.unmerged =
              {p \in DOMAIN priv.paths :
                  Unclean(priv.paths[p]) /\ priv.paths[p].filemask > 0}
        /\ \A p \in DOMAIN priv.unmerged : priv.unmerged[p] = priv.paths[p].addr

\* A file in the way of a directory was moved to a uniquified path and is
\* unmerged there, next to the unclean placeholder of the directory.
C6_Witness ==
    /\ Finished
    /\ \E p \in DOMAIN priv.unmerged : \E i \in 1..Len(p) : p[i] = "~"
    /\ \E ci \in Records : Unclean(ci) /\ ci.filemask = 0

\* C7: in every state of a merge, no unresolved record has a role that is
\* both a file and a directory.
C7_NoRoleIsFileAndDirectory ==
    \A ci \in Records : Unclean(ci) => BitAnd(ci.filemask, ci.dirmask) = 0

\* C7, as the code has it: it holds after collection, after the implicit
\* directory renames and after resolution.  In between, process_renames()
\* copies the stages of a renamed file onto a target that is a directory
\* on another side or in the base: the record then has the base's file bit
\* next to the directory's bit.
C7_ExceptBetweenRenamesAndResolution ==
    \A ci \in Records :
        (Unclean(ci) /\ BitAnd(ci.filemask, ci.dirmask) # 0) =>
            pc = "entries" /\ ci.df_conflict /\ Bit(ci.filemask, 0) = 1

\* The collector left a path that is a file on one side and a directory on
\* the other.
C7_Witness ==
    /\ pc = "renames"
    /\ \E ci \in Records : Unclean(ci) /\ ci.filemask # 0 /\ ci.dirmask # 0

\* C8: a record that is resolved at the end of a merge is null exactly
\* when its result mode is 0.
C8_NullIffModeZero ==
    Finished => \A ci \in Records : ci.clean => (ci.is_null <=> ci.result.mode = 0)


NeedDirRenames ==
    options.detect_directory_renames \in {MERGE_DIRECTORY_RENAMES_TRUE,
                                          MERGE_DIRECTORY_RENAMES_CONFLICT}

\* The renames of the current merge have been detected and collected.
RenamesCollected ==
    pc \in {"process_renames", "entries", "done"} /\ nmerges = 1 /\ renaming.process

MaxCount(counts) ==
    CHOOSE m \in {counts[d] : d \in DOMAIN counts} : \A d \in DOMAIN counts : counts[d] <= m

Winners(counts) == {d \in DOMAIN counts : counts[d] = MaxCount(counts)}

IsPrefixDir(dir, path) ==
    Len(path) > Len(dir) + 1 /\ SubSeq(path, 1, Len(dir) + 1) = dir \o <<"/">>

Messages == UNION {Range(priv.output[k]) : k \in DOMAIN priv.output}

\* The paths that an implicit directory rename has moved.
ImplicitlyRenamed ==
    {m[2] : m \in {x \in Messages : x[1] \in {"Path updated", "CONFLICT (file location)"}}}

\* Old directories of a side whose files went to several new directories
\* with no single one receiving the most, and those with a single best.
SplitDirs(side) ==
    {old \in DOMAIN priv.renames.dir_rename_count[side] :
        Cardinality(Winners(priv.renames.dir_rename_count[side][old])) >= 2}
DecidedDirs(side) ==
    {old \in DOMAIN priv.renames.dir_rename_count[side] :
        Cardinality(Winners(priv.renames.dir_rename_count[side][old])) = 1}
BestDir(side, old) ==
    CHOOSE d \in Winners(priv.renames.dir_rename_count[side][old]) : TRUE

SplitIsUnclean(side, old) ==
    /\ renaming.clean = 0
    /\ Finished => result.clean = 0
    /\ old \notin DOMAIN priv.renames.dir_renames[side]

DecidedIsMapped(side, old) ==
    /\ old \in DOMAIN priv.renames.dir_renames[side]
    /\ priv.renames.dir_renames[side][old] = BestDir(side, old)

\* C9: an old directory whose rename counts tie at the maximum makes the
\* merge unclean, gets no entry in the directory rename map and has no
\* path implicitly renamed out of it; an old directory with one strict
\* maximum maps to that new directory.
C9_SplitDirectoryIsNotRenamed ==
    RenamesCollected =>
        \A side \in 1..2 :
            /\ \A old \in SplitDirs(side) :
                  /\ SplitIsUnclean(side, old)
                  /\ \A p \in ImplicitlyRenamed : ~IsPrefixDir(old, p)
            /\ \A old \in DecidedDirs(side) : DecidedIsMapped(side, old)

\* C9, as the code has it: where directory rename detection is enabled.  A
\* path in a split directory can still move with a renamed directory
\* further up.
C9_SplitDirectoryWhenDetecting ==
    (RenamesCollected /\ NeedDirRenames) =>
        \A side \in 1..2 :
            /\ \A old \in SplitDirs(side) :
                  /\ SplitIsUnclean(side, old)
                  /\ \A p \in ImplicitlyRenamed :
                        IsPrefixDir(old, p) =>
                            \E up \in DOMAIN priv.renames.dir_renames[side] :
                                IsPrefixDir(up, old)
            /\ \A old \in DecidedDirs(side) : DecidedIsMapped(side, old)

\* A directory was split while the other side added a file to it.
C9_Witness ==
    /\ Finished /\ nmerges = 1 /\ renaming.process /\ NeedDirRenames
    /\ \E side \in 1..2 : \E old \in SplitDirs(side) :
          \E p \in DOMAIN priv.paths :
              IsPrefixDir(old, p) /\ priv.paths[p].filemask = 2 ^ (3 - side)

\* A directory with a strict best target was mapped, and a path moved.
C9_WitnessDecided ==
    /\ Finished /\ nmerges = 1 /\ renaming.process /\ NeedDirRenames
    /\ \E side \in 1..2 : DecidedDirs(side) # {}
    /\ ImplicitlyRenamed # {}

\* ---- content merges

\* The record went through the content merge of process_entry().
ContentMerged(ci) ==
    /\ ci.filemask >= 6 /\ ci.match_mask = 0 /\ ci.dirmask = 0
    /\ FileType(ci.stages[2].mode) = FileType(ci.stages[3].mode)

\* What handle_content_merge() returned for the record at path p.
ContentMergeOf(p) ==
    LET ci == priv.paths[p]
    IN handle_content_merge(Opt, priv, p, ci.stages[1], ci.stages[2], ci.stages[3],
                            ci.pathnames, 0).ret

\* C10: a content-merged path is clean exactly when the content merge was
\* clean and the record has neither a path conflict nor a D/F conflict; a
\* content merge that fails leaves the path unclean and unmerged.
C10_ContentMergeDecidesClean ==
    Finished =>
        \A p \in DOMAIN priv.paths :
            LET ci == priv.paths[p]
            IN ContentMerged(ci) =>
                /\ ci.clean <=> (ContentMergeOf(p) = 1 /\ ~ci.path_conflict /\ ~ci.df_conflict)
                /\ ContentMergeOf(p) < 0 => ~ci.clean /\ p \in DOMAIN priv.unmerged

\* C10 where the content merger and the object store do not fail.
C10_WhenMergerWorks ==
    (Finished /\ env.merge = "ok") => C10_ContentMergeDecidesClean

\* ---- object writes

\* The merged blob of a content merge of process_entry() could not be
\* written to the object store.
BlobWriteFailed ==
    /\ env.merge = "nowrite"
    /\ \E p \in DOMAIN priv.paths : ContentMerged(priv.paths[p]) /\ ContentMergeOf(p) < 0

\* C11: a merge in which an object could not be written does not end with
\* a result tree and a clean/unclean verdict: it returns clean < 0.
C11_WriteFailureIsFatal ==
    (Finished /\ BlobWriteFailed) => result.clean < 0

\* ---- rename caches across the merges of a sequence

\* The rename caches a rename_info holds for a side.
CachesOf(r, side) ==
    [cached_pairs |-> r.cached_pairs[side],
     cached_irrelevant |-> r.cached_irrelevant[side],
     cached_target_names |-> r.cached_target_names[side]]

NoCaches == [cached_pairs |-> <<>>, cached_irrelevant |-> {}, cached_target_names |-> {}]

\* A step that starts the next merge of a sequence: args and result are
\* those of the merge before, args' the trees of the merge that starts.
NextMergeStarts == pc = "done" /\ pc' # "done"

\* The side whose caches the trees of the starting merge allow to reuse.
SurvivingSide ==
    IF args'[1] = args[3] /\ args'[2] = result.tree THEN 1
    ELSE IF args'[1] = args[2] /\ args'[3] = result.tree THEN 2
    ELSE 0

RenameStateCleared(r, old, valid) ==
    /\ \A side \in 1..2 :
          /\ r.relevant_sources[side] = <<>>
          /\ r.dirs_removed[side] = <<>>
          /\ r.possible_trivial_merges[side] = <<>>
          /\ r.target_dirs[side] = {}
    /\ r.dir_rename_mask = 0
    /\ valid \in 1..2 => CachesOf(r, valid) = CachesOf(old, valid)

\* C13 without the per-path messages.
C13_ClearKeepsOnlyCachesAndOutput ==
    [][NextMergeStarts =>
         /\ priv'.paths = <<>> /\ priv'.unmerged = <<>>
         /\ RenameStateCleared(priv'.renames, priv.renames, SurvivingSide)]_vars

\* C13: the partial clear at the start of the next merge of a sequence
\* leaves PATH MAP, UNMERGED MAP and the per-path OUTPUT MESSAGES empty, each
\* side's relevant_sources, dirs_removed, possible_trivial_merges and
\* target_dirs empty and dir_rename_mask 0, and the caches of the valid side
\* as they were.
C13_PartialClearKeepsOnlyValidCaches ==
    [][NextMergeStarts =>
         /\ priv'.paths = <<>> /\ priv'.unmerged = <<>> /\ priv'.output = <<>>
         /\ RenameStateCleared(priv'.renames, priv.renames, SurvivingSide)]_vars

\* ---- the restart of the collection phase

redo_after_renames == priv.renames.redo_after_renames

\* The assertion of handle_deferred_entries that no redo was requested before.
RedoAssertionFailed ==
    \E i \in 1..Len(priv.failed) : priv.failed[i] = "handle_deferred_entries: redo_after_renames"

\* The 'goto redo' of merge_ort_nonrecursive_internal is taken.
RedoRestarts == pc = "process_renames" /\ pc' = "collect"

\* Where redo_after_renames stands in each phase of a merge.
RedoProtocol ==
    /\ collections <= 2
    /\ ~RedoAssertionFailed
    /\ pc = "collect" => redo_after_renames = IF collections = 0 THEN 0 ELSE 2
    /\ pc = "renames" => redo_after_renames \in IF collections = 1 THEN {0, 1} ELSE {0}
    /\ pc = "process_renames" => redo_after_renames \in IF collections = 1 THEN {0, 2} ELSE {0}
    /\ pc \in {"entries", "done"} => redo_after_renames = 0
    /\ Finished => priv.renames.cached_pairs_valid_side = 0

\* C14: a merge runs the collection phase at most twice: redo_after_renames
\* goes from 0 to 1 in the handling of deferred entries and to 2 when the
\* detection has cached its pairs, the merge then restarts once with the
\* rename caches of both sides retained, the second collection puts it back
\* to 0 and the merge goes on to the resolution; the assertion that no redo
\* is requested twice holds, and cached_pairs_valid_side is 0 on return.
C14_CollectsAtMostTwice ==
    [][/\ RedoProtocol'
       /\ RedoRestarts =>
            /\ collections = 1 /\ redo_after_renames = 2
            /\ \A side \in 1..2 : CachesOf(priv'.renames, side) = CachesOf(priv.renames, side)]_vars

\* A merge that collected twice has finished, with the pairs cached by the
\* first run still there.
C14_Witness ==
    /\ Finished /\ collections = 2
    /\ priv.renames.cached_pairs[2] # <<>>

\* ---- the request of a redo

\* The collection phase runs, and ends without a failed assertion.
CollectionRuns == pc = "collect" /\ pc' = "renames"

\* The paths the traversal collects before the deferred entries are handled.
PathCountBefore ==
    Cardinality(DOMAIN traverse_trees([priv EXCEPT !.current_dir_name = toplevel_dir],
                                      args, [path |-> <<>>, pathlen |-> 0]).paths)

\* The collection that ends here requested a redo.
RedoRequested ==
    /\ priv'.renames.redo_after_renames = 1
    /\ priv'.renames.cached_pairs_valid_side = -1

DivisionByZero ==
    \E i \in 1..Len(priv.failed) : priv.failed[i] = "handle_deferred_entries: division by zero"

\* C20: the collection requests a redo (and sets cached_pairs_valid_side to
\* -1) exactly when the number of paths after the handling of the deferred
\* entries is less than a tenth of the number before it.
C20_RedoWhenPathsShrank ==
    [][CollectionRuns =>
         (RedoRequested <=> Cardinality(DOMAIN priv'.paths) * wanted_factor < PathCountBefore)]_vars

\* C20 with the test the code makes: a redo is requested exactly when a side
\* had a relevant source without cached rename information, so that its
\* deferred directories were walked, and the number of paths after the
\* handling of the deferred entries, divided (as integers) by the number
\* before it, exceeds ten; otherwise cached_pairs_valid_side is left alone
\* and redo_after_renames is 0; the divisor is never 0.
C20_RedoWhenPathsGrewTenfold ==
    [][/\ ~DivisionByZero'
       /\ CollectionRuns =>
            /\ RedoRequested <=>
                 /\ \E side \in 1..2 : ~priv'.renames.trivial_merges_okay[side]
                 /\ PathCountBefore > 0
                 /\ Cardinality(DOMAIN priv'.paths) \div PathCountBefore > wanted_factor
            /\ ~RedoRequested =>
                 /\ priv'.renames.redo_after_renames = 0
                 /\ priv'.renames.cached_pairs_valid_side = priv.renames.cached_pairs_valid_side]_vars

\* A collection has requested a redo: 22 paths where 2 were collected before
\* the deferred directory was walked.
C20_Witness ==
    /\ pc = "renames"
    /\ priv.renames.redo_after_renames = 1 /\ priv.renames.cached_pairs_valid_side = -1
    /\ Cardinality(DOMAIN priv.paths) = 22

\* ---- the resolution of a record, seen over the step that runs process_entries

\* process_entries runs, and ends without a failed assertion.
ResolutionRuns == pc = "entries" /\ pc' = "done"

\* The records that reach the resolution unresolved.
Pending == {p \in DOMAIN priv.paths : ~priv.paths[p].clean /\ priv.paths[p].filemask # 0}

\* p stays the path of its file: no directory got in its way.
StaysInPlace(p) == priv'.paths[p].filemask # 0

\* The file at p reaches the resolution changed on one side and deleted on
\* the other.
IsModifyDelete(p) ==
    /\ p \in Pending
    /\ priv.paths[p].filemask \in {3, 5} /\ priv.paths[p].match_mask = 0

ModifyingSide(ci) == IF ci.filemask = 5 THEN 2 ELSE 1

EqualAfterNormalization(a, b) ==
    a.mode = b.mode /\ Renormalize(a.oid.blob) = Renormalize(b.oid.blob)

\* What the resolution leaves at p for the modify/delete record ci.
ModifyDeleteResolved(p, ci, after) ==
    IF options.renormalize
       /\ EqualAfterNormalization(ci.stages[1], ci.stages[ModifyingSide(ci) + 1])
    THEN after.paths[p].clean /\ after.paths[p].is_null
    ELSE /\ after.paths[p].result = ci.stages[ModifyingSide(ci) + 1]
         /\ ~after.paths[p].clean
         /\ p \in DOMAIN after.unmerged /\ after.unmerged[p] = after.paths[p].addr
         /\ after.paths[p].filemask = ci.filemask
         /\ after.paths[p].stages = ci.stages
         /\ ci.stages[1].mode # 0 /\ ci.stages[ModifyingSide(ci) + 1].mode # 0
         /\ ci.stages[4 - ModifyingSide(ci)].mode = 0

C15_WitnessRenormalized ==
    /\ Finished /\ options.renormalize
    /\ \E p \in DOMAIN priv.paths :
          /\ priv.paths[p].filemask \in {3, 5} /\ priv.paths[p].match_mask = 0
          /\ priv.paths[p].clean /\ priv.paths[p].is_null
          /\ priv.paths[p].stages[1].oid # priv.paths[p].stages[ModifyingSide(priv.paths[p]) + 1].oid

\* ---- file/directory conflicts

\* The record at p reaches the resolution as a file/directory conflict.
IsDirectoryFile(p) == p \in Pending /\ priv.paths[p].df_conflict

\* The paths below p that the resolution leaves in the result.
SurvivingChildren(p, after) ==
    {q \in DOMAIN after.paths :
        /\ IsPrefixDir(p, q)
        /\ ~after.paths[q].is_null /\ after.paths[q].result.mode # 0}

\* The sides that have a file in the record ci.
SidesWithFile(ci) == {side \in 1..2 : Bit(ci.filemask, side) = 1}

\* path~branch, with the slashes of the branch name replaced.
ConflictName(p, branch) ==
    p \o <<"~">> \o [i \in 1..Len(branch) |-> IF branch[i] = "/" THEN "_" ELSE branch[i]]

\* The keys that the resolution adds for the file of the record ci at p: a
\* name made of p and the branch of a side that has the file, where the file
\* stages of ci are.
NewKeysFor(p, ci, after) ==
    {q \in DOMAIN after.paths \ DOMAIN priv.paths :
        /\ \E side \in SidesWithFile(ci) :
              q = ConflictName(p, IF side = 1 THEN options.branch1 ELSE options.branch2)
        /\ after.paths[q].dirmask = 0
        /\ \A side \in SidesWithFile(ci) : after.paths[q].stages[side + 1].mode # 0}

\* The directory stays at p, and the file of ci goes to a key of its own.
DirectoryKept(p, ci, after) ==
    /\ after.paths[p].filemask = 0
    /\ after.paths[p].result.mode = S_IFDIR
    /\ SidesWithFile(ci) # {} => NewKeysFor(p, ci, after) # {}

\* The file stays at p, where no directory is any more.
FileKept(p, ci, after) ==
    /\ ~after.paths[p].df_conflict
    /\ after.paths[p].filemask = ci.filemask /\ after.paths[p].dirmask = 0
    /\ after.paths[p].result.mode # S_IFDIR
    /\ NewKeysFor(p, ci, after) = {}

\* C16 without the verdict of the merge.
C16_DirectoryOrFileKeepsThePath ==
    [][ResolutionRuns =>
         \A p \in DOMAIN priv.paths :
            IsDirectoryFile(p) =>
                IF SurvivingChildren(p, priv') # {}
                THEN DirectoryKept(p, priv.paths[p], priv')
                ELSE FileKept(p, priv.paths[p], priv')]_vars

\* C16: for a record with df_conflict whose directory keeps a child, every
\* file version still present on a side moves to a new key named after the
\* path and the branch that has the file, the record keeps the directory
\* only (filemask 0, the tree as result) and the merge is unclean; when no
\* child is left, df_conflict is cleared and the file is resolved at the
\* path itself.
C16_FileMovesAndMergeIsUnclean ==
    [][ResolutionRuns =>
         \A p \in DOMAIN priv.paths :
            IsDirectoryFile(p) =>
                IF SurvivingChildren(p, priv') # {}
                THEN /\ DirectoryKept(p, priv.paths[p], priv')
                     /\ SidesWithFile(priv.paths[p]) # {} => result'.clean = 0
                ELSE FileKept(p, priv.paths[p], priv')]_vars

\* ---- the records the collector creates

\* The records as the traversal of the three trees leaves them, before the
\* deferred directories are handled.
Collected ==
    traverse_trees([priv EXCEPT !.current_dir_name = toplevel_dir, !.masks = {}],
                   args, [path |-> <<>>, pathlen |-> 0])

SlashAt(p) == CHOOSE i \in 1..Len(p) : p[i] = "/" /\ \A j \in 1..(i - 1) : p[j] # "/"

\* The version a tree holds at a path (null when it holds none).
RECURSIVE VersionAt(_, _)
VersionAt(tree, p) ==
    IF "/" \notin Range(p) THEN TreeLookup(tree, p)
    ELSE LET dir == TreeLookup(tree, SubSeq(p, 1, SlashAt(p) - 1))
         IN IF dir.mode = S_IFDIR THEN VersionAt(dir.oid, SubSeq(p, SlashAt(p) + 1, Len(p)))
            ELSE NullVersion

\* The versions of a path in the base, side 1 and side 2 of the merge.
RolesAt(p) == <<VersionAt(args[1], p), VersionAt(args[2], p), VersionAt(args[3], p)>>

IsFileVersion(v) == v.mode # 0 /\ v.mode # S_IFDIR
AllFiles(n) == \A i \in 1..3 : IsFileVersion(n[i])
EqualRoles(n, i, j) == n[i].mode # 0 /\ n[i] = n[j]
AllEqual(n) == EqualRoles(n, 1, 2) /\ EqualRoles(n, 1, 3)

\* The three cases of an early resolution, and the version each takes.
ResolvesEarly(n) ==
    \/ AllEqual(n)
    \/ AllFiles(n) /\ EqualRoles(n, 2, 3)
    \/ AllFiles(n) /\ (EqualRoles(n, 1, 2) # EqualRoles(n, 1, 3))

EarlyResult(n) ==
    IF AllEqual(n) THEN n[1]
    ELSE IF EqualRoles(n, 2, 3) THEN n[2]
    ELSE IF EqualRoles(n, 1, 2) THEN n[3] ELSE n[2]

\* The match mask that names the pair of equal roles.
PairMask(n) ==
    IF EqualRoles(n, 1, 2) THEN 3
    ELSE IF EqualRoles(n, 1, 3) THEN 5
    ELSE IF EqualRoles(n, 2, 3) THEN 6 ELSE 0

\* The record ci is resolved as the early resolution of n says, or pending
\* with the match mask m.
CreatedAs(ci, n, m) ==
    IF ResolvesEarly(n)
    THEN ci.clean /\ ci.result = EarlyResult(n) /\ ci.is_null = (EarlyResult(n).mode = 0)
    ELSE ~ci.clean /\ ci.match_mask = m

\* C17: the collector creates a record resolved exactly when the three roles
\* are equal (base version), or are files with equal sides (side 1 version),
\* or are files with exactly one side equal to the base (version of the
\* other side); every other record is pending, with the match mask 3, 5, 6
\* or 0 of the pair of equal roles.
C17_ResolvedEarlyOrPairMask ==
    pc = "collect" =>
        \A p \in DOMAIN Collected.paths :
            CreatedAs(Collected.paths[p], RolesAt(p), PairMask(RolesAt(p)))

\* A directory that only one side has.
NewDirectory(n) == EntryMask(n) \in {2, 4} /\ EntryDirmask(n) = EntryMask(n)

\* The directory at p was put aside as a possibly trivial merge.
Deferred(s, p) == \E side \in 1..2 : p \in DOMAIN s.renames.possible_trivial_merges[side]

\* The match mask the collector leaves in a pending record: a directory that
\* only one side has counts as matching on the other side, and a directory
\* that was walked keeps the bits of the roles that are files.
CollectorMask(s, p, n) ==
    IF EntryDirmask(n) = 0 THEN PairMask(n)
    ELSE IF NewDirectory(n)
    THEN (IF Deferred(s, p) THEN 7 - EntryDirmask(n) ELSE 0)
    ELSE IF Deferred(s, p) THEN PairMask(n)
    ELSE BitAnd(PairMask(n), EntryMask(n) - EntryDirmask(n))

\* The file records of the merge are not touched by the handling of the
\* deferred directories.
FileRecordsCreated(after) ==
    \A p \in DOMAIN after.paths :
        EntryDirmask(RolesAt(p)) = 0 =>
            CreatedAs(after.paths[p], RolesAt(p), PairMask(RolesAt(p)))

\* C17 with the match mask the collector stores: as C17 for the early
\* resolutions and for files; a pending record of a directory that only one
\* side has carries 7 - dirmask (5 or 3) while it is deferred, and a
\* directory that was walked carries the mask of the equal pair restricted
\* to the roles that are files.
C17_ResolvedEarlyOrCollectorMask ==
    [][CollectionRuns =>
         /\ \A p \in DOMAIN Collected.paths :
               CreatedAs(Collected.paths[p], RolesAt(p),
                         CollectorMask(Collected, p, RolesAt(p)))
         /\ FileRecordsCreated(priv')]_vars

\* A collection has created a record resolved to the version of side 1 and
\* a pending file record with a match mask; another has deferred a
\* directory that only one side has.
C17_Witness ==
    /\ pc = "renames"
    /\ \E p \in DOMAIN priv.paths :
          /\ AllFiles(RolesAt(p)) /\ ~AllEqual(RolesAt(p)) /\ EqualRoles(RolesAt(p), 1, 3)
          /\ priv.paths[p].clean /\ priv.paths[p].result = RolesAt(p)[2]
    /\ \E p \in DOMAIN priv.paths :
          /\ EntryDirmask(RolesAt(p)) = 0
          /\ ~priv.paths[p].clean /\ priv.paths[p].match_mask # 0

C17_WitnessNewDirectory ==
    /\ pc = "collect"
    /\ \E p \in DOMAIN Collected.paths :
          NewDirectory(RolesAt(p)) /\ Collected.paths[p].match_mask \in {3, 5}

\* ---- records with a match mask

\* The file record at p reaches the resolution with two of its roles equal.
IsMatched(p) ==
    /\ p \in Pending
    /\ priv.paths[p].match_mask # 0 /\ priv.paths[p].dirmask = 0

\* The stage the match mask selects: side 1 when the sides match or side 2
\* matches the base, side 2 when side 1 matches the base.
ChosenStage(ci) == IF ci.match_mask = 3 THEN ci.stages[3] ELSE ci.stages[2]

\* An assertion of the match mask branch of process_entry has failed.
MatchAssertionFailed(s) ==
    \E i \in 1..Len(s.failed) :
        s.failed[i] \in {"process_entry: assert(is_null == !result.mode)",
                         "process_entry: assert(othermask == 2 || othermask == 4)"}

C18_WitnessSidesMatch ==
    /\ Finished
    /\ \E p \in DOMAIN priv.paths :
          /\ priv.paths[p].match_mask = 6 /\ priv.paths[p].dirmask = 0
          /\ priv.paths[p].clean /\ priv.paths[p].result = priv.paths[p].stages[2]

\* ... and one with match mask 6 whose stage of side 1 the rename processing
\* has replaced by a merged content.
C18_WitnessAfterRename ==
    /\ Finished
    /\ \E p \in DOMAIN priv.paths :
          /\ priv.paths[p].match_mask = 6 /\ priv.paths[p].dirmask = 0
          /\ priv.paths[p].stages[2] # priv.paths[p].stages[3]
          /\ priv.paths[p].clean /\ priv.paths[p].result = priv.paths[p].stages[2]

\* ---- files deleted on both sides

\* The file at p reaches the resolution present in the base only.
IsDeletedOnBothSides(p) ==
    /\ p \in Pending
    /\ priv.paths[p].filemask = 1 /\ priv.paths[p].match_mask = 0

C19_WitnessClean ==
    /\ Finished
    /\ \E p \in DOMAIN priv.paths :
          /\ priv.paths[p].filemask = 1 /\ priv.paths[p].match_mask = 0
          /\ priv.paths[p].dirmask = 0
          /\ priv.paths[p].is_null /\ priv.paths[p].clean

\* ---- deferred directories

\* The directories the traversal put aside for a side, before the deferred
\* entries are handled.
Parked(side) == DOMAIN Collected.renames.possible_trivial_merges[side]

\* The directories put aside for a side while its deferred directories were
\* walked.
ParkedLater(after, side) == DOMAIN after.renames.possible_trivial_merges[side]

\* The paths of the entries the three trees hold in the directory p.
ChildrenOf(p) ==
    UNION {{p \o <<"/">> \o RolesAt(p)[k].oid.ents[i].name :
               i \in 1..Len(RolesAt(p)[k].oid.ents)} :
           k \in {j \in 1..3 : RolesAt(p)[j].mode = S_IFDIR}}

\* Every relevant rename source the traversal found for the side is known
\* from the cache, as irrelevant, deleted or renamed.
KnownFromCache(side) ==
    \A src \in DOMAIN Collected.renames.relevant_sources[side] :
        \/ src \in priv.renames.cached_irrelevant[side]
        \/ src \in DOMAIN priv.renames.cached_pairs[side]

\* The directory at p is resolved clean to the version the side has of it.
TriviallyResolved(after, p, side) ==
    /\ after.paths[p].clean
    /\ after.paths[p].result = RolesAt(p)[side + 1]
    /\ after.paths[p].is_null = (RolesAt(p)[side + 1].mode = 0)
    /\ after.renames.trivial_merges_okay[side] /\ KnownFromCache(side)
    /\ p \notin after.renames.target_dirs[side]
    /\ ChildrenOf(p) \cap DOMAIN after.paths = {}

\* The directory at p is pending, its children walked into PATH MAP.
WalkedInto(after, p) ==
    /\ ~after.paths[p].clean
    /\ ChildrenOf(p) # {} /\ ChildrenOf(p) \subseteq DOMAIN after.paths

TrivialAssertionFailed(s) ==
    \E i \in 1..Len(s.failed) :
        s.failed[i] \in {"resolve_trivial_directory_merge: match_mask",
                         "handle_deferred_entries: deferred again"}

\* C21: when the handling of the deferred entries ends, every directory
\* that was put aside for a side is either resolved clean to the side's
\* version of it (only with every relevant rename source of the side known
\* from the cache and the directory outside target_dirs of the side) or
\* pending with its children walked into PATH MAP; the directories put
\* aside during that walk are all resolved; no assertion of a trivial
\* resolution fails.
C21_DeferredDirectoriesAreSettled ==
    [][(pc = "collect" /\ pc' # pc) =>
         /\ ~TrivialAssertionFailed(priv')
         /\ pc' = "renames" =>
              \A side \in 1..2 :
                 /\ \A p \in Parked(side) :
                       TriviallyResolved(priv', p, side) \/ WalkedInto(priv', p)
                 /\ \A p \in ParkedLater(priv', side) :
                       TriviallyResolved(priv', p, side)]_vars

\* A collection has resolved a deferred directory of a side whose relevant
\* source is known from the cache, and walked another that holds the target
\* of a cached rename.
C21_Witness ==
    /\ pc = "renames"
    /\ \E side \in 1..2 :
          /\ DOMAIN priv.renames.relevant_sources[side] # {}
          /\ priv.renames.trivial_merges_okay[side]
          /\ priv.renames.target_dirs[side] # {}
          /\ \E p \in DOMAIN priv.paths :
                priv.paths[p].clean /\ priv.paths[p].dirmask # 0
          /\ \E p \in priv.renames.target_dirs[side] :
                p \in DOMAIN priv.paths /\ ~priv.paths[p].clean

\* A collection has put a directory aside while it walked a deferred one.
C21_WitnessParkedLater ==
    /\ pc = "renames"
    /\ \E side \in 1..2 : priv.renames.possible_trivial_merges[side] # <<>>

\* ---- dir_rename_mask

MaskValues == {0, 2, 4, 7}

\* What the collection has seen of dir_rename_mask: <<kind, the mask found,
\* the dirmask of the entry, the mask left>>.
MasksSeen(kind) == {m \in priv.masks : m[1] = kind}

MaskAssertionFailed ==
    \E i \in 1..Len(priv.failed) :
        priv.failed[i] \in {"collect_rename_info: dir_rename_mask",
                            "traverse_trees_wrapper: dir_rename_mask"}

\* C22: dir_rename_mask is always 0, 2, 4 or 7; a directory with dirmask 3
\* or 5 visited while the mask is not 7 finds the mask 0 or dirmask & ~1;
\* the buffering wrapper is entered with the mask 2 or 4 only; and the
\* callback of an entry returns with the mask it was entered with.
C22_DirRenameMask ==
    /\ priv.renames.dir_rename_mask \in MaskValues
    /\ \A m \in priv.masks : m[2] \in MaskValues /\ m[4] \in MaskValues
    /\ \A m \in MasksSeen("visit") :
          (m[3] \in {3, 5} /\ m[2] # 7) => m[2] \in {0, m[3] - 1}
    /\ \A m \in MasksSeen("wrapper") : m[2] \in {2, 4}
    /\ \A m \in MasksSeen("callback") : m[4] = m[2]
    /\ ~MaskAssertionFailed

\* A collection has walked a directory that one side lacks through the
\* wrapper, raised the mask to 7 for a file of it, visited an entry with
\* the mask 7, and returned from the directory with the mask 0.
C22_Witness ==
    /\ pc = "renames"
    /\ MasksSeen("wrapper") # {}
    /\ MasksSeen("raise") # {}
    /\ \E m \in MasksSeen("visit") : m[2] = 7
    /\ \E m \in MasksSeen("callback") : m[3] \in {3, 5} /\ m[2] = 0

\* A collection has visited a directory that one side lacks inside another
\* that the same side lacks, with the mask of that side.
C22_WitnessNested ==
    /\ pc = "renames"
    /\ \E m \in MasksSeen("visit") : m[3] \in {3, 5} /\ m[2] = m[3] - 1

\* ---- collisions of implicit directory renames

\* detect_and_process_renames runs up to the sorted queue of renames, or to
\* a failed assertion.
DetectionRuns == pc = "renames" /\ pc' # pc

\* The directory renames of a side that are applied to the paths of the
\* other side: those that get_directory_renames() found, less the ones
\* that handle_directory_level_conflicts() removes.
UsedDirRenames(after, side) ==
    handle_directory_level_conflicts(priv, after.renames.dir_renames[1],
                                     after.renames.dir_renames[2])[side]

\* The directory of p that the other side renamed (NoTarget if none).
RenamedDirOf(after, side, p) == check_dir_renamed(p, UsedDirRenames(after, 3 - side))

\* The paths that only the side has, in a directory that the other side
\* renamed to a directory the side did not rename itself.
Candidates(after, side) ==
    {p \in DOMAIN priv.paths :
        /\ ~priv.paths[p].clean
        /\ priv.paths[p].filemask = 2 ^ side /\ priv.paths[p].dirmask = 0
        /\ RenamedDirOf(after, side, p) # NoTarget
        /\ UsedDirRenames(after, 3 - side)[RenamedDirOf(after, side, p)]
              \notin DOMAIN UsedDirRenames(after, side)}

\* Where the implicit rename would put p.
RewrittenTarget(after, side, p) ==
    apply_dir_rename(RenamedDirOf(after, side, p),
                     UsedDirRenames(after, 3 - side)[RenamedDirOf(after, side, p)], p)

\* The rewritten target of p is occupied on the side, or is the rewritten
\* target of another path of the side as well.
Collides(after, side, p) ==
    \/ path_in_way(priv.paths, RewrittenTarget(after, side, p), 2 ^ side)
    \/ \E q \in Candidates(after, side) \ {p} :
          RewrittenTarget(after, side, q) = RewrittenTarget(after, side, p)

CollisionMessages(s) ==
    {m \in UNION {Range(s.output[k]) : k \in DOMAIN s.output} :
        m[1] \in {"CONFLICT (implicit dir rename): existing file/dir in the way",
                  "CONFLICT (implicit dir rename): cannot map more than one path"}}

\* The rename of p is not applied: its record is left at its key, no pair
\* of the queue moves it, the collision is reported and the rename phase
\* is unclean.
NotApplied(after, side, p) ==
    /\ p \in DOMAIN after.paths
    /\ after.paths[p].filemask = priv.paths[p].filemask
    /\ after.paths[p].stages = priv.paths[p].stages
    /\ after.paths[p].pathnames = priv.paths[p].pathnames
    /\ \A i \in 1..Len(renaming'.queue) :
          renaming'.queue[i].one.path = p => renaming'.queue[i].two.path = p
    /\ \E m \in CollisionMessages(after) : m[2] = RewrittenTarget(after, side, p)
    /\ renaming'.clean = 0

\* C23: when the rewritten target of an implicit directory rename is
\* occupied on the same side, or is the target of two or more sources, the
\* rename is applied to none of the sources, the merge is unclean and
\* path_conflict is set on the records involved.
C23_CollisionSetsPathConflict ==
    [][(DetectionRuns /\ NeedDirRenames) =>
         \A side \in 1..2 : \A p \in Candidates(priv', side) :
            Collides(priv', side, p) =>
                NotApplied(priv', side, p) /\ priv'.paths[p].path_conflict]_vars

\* C23 without the flag: the rename is applied to none of the sources, the
\* collision is reported with a message, the rename phase and the merge are
\* unclean, and the records of the sources are left as they were,
\* path_conflict included.
C23_CollisionIsNotApplied ==
    [][/\ (DetectionRuns /\ NeedDirRenames) =>
            \A side \in 1..2 : \A p \in Candidates(priv', side) :
               Collides(priv', side, p) =>
                   NotApplied(priv', side, p) /\ priv'.paths[p] = priv.paths[p]
       /\ (pc' = "done" /\ CollisionMessages(priv') # {}) => result'.clean = 0]_vars

\* A merge has reported a file in the way of an implicit rename, and
\* another two paths that map to one target; the sources stayed.
C23_Witness ==
    /\ pc = "process_renames"
    /\ \E m \in CollisionMessages(priv) :
          /\ m[1] = "CONFLICT (implicit dir rename): existing file/dir in the way"
          /\ m[2] = <<"b", "/", "n">>
    /\ a_n \in DOMAIN priv.paths /\ ~priv.paths[a_n].path_conflict
    /\ renaming.clean = 0

C23_WitnessTwoSources ==
    /\ Finished /\ result.clean = 0
    /\ \E m \in CollisionMessages(priv) :
          m[1] = "CONFLICT (implicit dir rename): cannot map more than one path"
    /\ {a_n, <<"c", "/", "n">>} \subseteq DOMAIN priv.paths

\* ---- relocation of a record by an implicit directory rename

\* The relocations the rename phase applies in this step: <<old key, new
\* key>> of every path it reports as moved.
Relocations ==
    {<<m[2], m[5]>> :
        m \in {x \in UNION {Range(priv'.output[k]) : k \in DOMAIN priv'.output} :
                  x[1] \in {"Path updated", "CONFLICT (file location)"}} \ Messages}

RelocationAssertionFailed(s) ==
    \E i \in 1..Len(s.failed) :
        s.failed[i] \in {"apply_directory_rename_modifications: filemask or dirmask",
                         "apply_directory_rename_modifications: target record",
                         "apply_directory_rename_modifications: no entry at old path"}

\* The side a moving record belongs to (1 or 2, for filemask 2 or 4).
MovingSide(ci) == ci.filemask \div 2

\* The record at the occupied new key has taken what the moving record had.
MergedInto(moving, resident, after) ==
    /\ ~resident.clean
    /\ BitAnd(resident.filemask, moving.filemask) = 0
    /\ after.filemask = BitOr(resident.filemask, moving.filemask)
    /\ after.stages[MovingSide(moving) + 1] = moving.stages[MovingSide(moving) + 1]
    /\ after.pathnames[MovingSide(moving) + 1] = moving.pathnames[MovingSide(moving) + 1]
    /\ resident.dirmask # 0 => after.df_conflict
    /\ after.dirmask = resident.dirmask

\* The moving record is at the free new key.
Transferred(moving, after) ==
    /\ after.filemask = moving.filemask
    /\ after.stages = moving.stages
    /\ after.pathnames = moving.pathnames
    /\ after.addr = moving.addr

\* C24: a relocation is applied only to a record with filemask 2 or 4 and
\* dirmask 0; a record at the new key is not clean and has not the moving
\* side's file bit, and receives the stage, the filemask bit and the
\* pathname of the moving side (and df_conflict if it has a dirmask); to a
\* free key the record is transferred; afterwards the old key is not in
\* PATH MAP and the pair's new path is the new key.
C24_RelocationMovesTheRecord ==
    [][DetectionRuns =>
         /\ ~RelocationAssertionFailed(priv')
         /\ \A r \in Relocations :
               /\ r[1] \in DOMAIN priv.paths
               /\ priv.paths[r[1]].filemask \in {2, 4} /\ priv.paths[r[1]].dirmask = 0
               /\ r[1] \notin DOMAIN priv'.paths
               /\ r[2] \in DOMAIN priv'.paths
               /\ IF r[2] \in DOMAIN priv.paths
                  THEN MergedInto(priv.paths[r[1]], priv.paths[r[2]], priv'.paths[r[2]])
                  ELSE Transferred(priv.paths[r[1]], priv'.paths[r[2]])
               /\ \E i \in 1..Len(renaming'.queue) : renaming'.queue[i].two.path = r[2]
               /\ \A i \in 1..Len(renaming'.queue) : renaming'.queue[i].two.path # r[1]]_vars

----------------------------------------------------------------------------
(* Resolution order *)

WithSlash(p) == p \o <<"/">>

\* The paths the resolver iteration processed, in the order it did.
RECURSIVE ProcessedOf(_)
ProcessedOf(walk) ==
    IF walk = <<>> THEN <<>>
    ELSE IF walk[1].what = "entry" THEN <<walk[1].path>> \o ProcessedOf(Tail(walk))
    ELSE ProcessedOf(Tail(walk))

\* The resolver runs: the step that leaves the resolution phase.
ResolverRuns == pc = "entries" /\ pc' # pc

\* order walks the keys from the last to the first of the byte-wise order of
\* the paths with '/' appended, and walks all of them unless the run failed.
WalksInReverse(order, keys, whole) ==
    /\ \A i, j \in DOMAIN order :
           i < j => StrCmp(WithSlash(order[j]), WithSlash(order[i])) < 0
    /\ {order[i] : i \in DOMAIN order} \subseteq keys
    /\ whole => {order[i] : i \in DOMAIN order} = keys

\* The places in order of the keys beneath the directory d.
PlacesBeneath(order, d) == {i \in DOMAIN order : IsPrefixDir(d, order[i])}

\* places is a run of consecutive places, all of them before the place j.
RunBefore(places, j) ==
    \A i \in places : i < j /\ (i + 1 < j /\ i + 1 \notin places => \A k \in places : k <= i)

\* Every key beneath a directory key comes before the directory, and the keys
\* beneath it come one after the other.
ChildrenFirst(order, keys) ==
    \A j \in DOMAIN order :
        /\ RunBefore(PlacesBeneath(order, order[j]), j)
        /\ {order[i] : i \in PlacesBeneath(order, order[j])}
               = {k \in keys : IsPrefixDir(order[j], k)}

\* C25: the comparator orders two distinct paths of PATH MAP as the
\* byte-wise comparison of the paths with '/' appended does, and the
\* resolver walks the keys of PATH MAP in the reverse of that order: every
\* key beneath a directory key d is processed before d, and the keys beneath
\* d are processed one after the other with no key outside d between them.
C25_ResolutionOrder ==
    [][ResolverRuns =>
           /\ \A a, b \in DOMAIN priv.paths :
                  a # b => /\ sort_dirs_next_to_their_children(a, b) # 0
                           /\ sort_dirs_next_to_their_children(a, b) < 0
                                  <=> StrCmp(WithSlash(a), WithSlash(b)) < 0
           /\ WalksInReverse(ProcessedOf(priv'.walk), DOMAIN priv.paths,
                             priv'.failed = <<>>)
           /\ ChildrenFirst(ProcessedOf(priv'.walk), DOMAIN priv.paths)]_vars

\* The resolver has walked a PATH MAP in which the order of strcmp() on the
\* plain paths puts a key outside a directory between the directory and a
\* key beneath it.
C25_Witness ==
    /\ pc = "done"
    /\ \E d, k, o \in {w.path : w \in Range(priv.walk)} :
           /\ IsPrefixDir(d, k) /\ ~IsPrefixDir(d, o)
           /\ StrCmp(d, o) < 0 /\ StrCmp(o, k) < 0

----------------------------------------------------------------------------
(* Tree builder *)

\* The places in the walk where the directory d was closed.
Closes(walk, d) == {i \in DOMAIN walk : walk[i].what = "close" /\ walk[i].path = d}

\* The places in the walk where a key beneath d was processed.
EntriesBeneath(walk, d) ==
    {i \in DOMAIN walk : walk[i].what = "entry" /\ IsPrefixDir(d, walk[i].path)}

\* The names of the records of the path map that lie directly in the
\* directory d and are not is_null.
LiveChildren(paths, d) ==
    {BaseOf(k) : k \in {x \in DOMAIN paths : x # <<>> /\ DirOf(x) = d /\ ~paths[x].is_null}}

\* Every directory with records beneath it is closed once, after them.
ClosedOnce(keys, walk) ==
    \A d \in keys :
        (\E k \in keys : IsPrefixDir(d, k)) =>
            /\ Cardinality(Closes(walk, d)) = 1
            /\ \A c \in Closes(walk, d) : \A e \in EntriesBeneath(walk, d) : e < c

\* The tree of every closed directory, the root included, holds the records
\* directly in it that are not is_null, each once.
TreesHoldLiveChildren(paths, walk) ==
    \A i \in DOMAIN walk :
        walk[i].what \in {"close", "end"} =>
            /\ Range(walk[i].names) = LiveChildren(paths, walk[i].path)
            /\ Len(walk[i].names) = Cardinality(Range(walk[i].names))

\* A directory is emitted iff its tree holds an entry; one that is only a
\* directory and is not emitted is left is_null.
EmptyIsNull(before, after, walk) ==
    \A i \in DOMAIN walk :
        walk[i].what = "close" =>
            /\ walk[i].wrote <=> walk[i].names # <<>>
            /\ ~walk[i].wrote /\ before[walk[i].path].filemask = 0
                   => after[walk[i].path].is_null

\* The iteration ends with the root as the one open directory, at offset 0.
EndsAtRoot(walk) ==
    /\ walk # <<>>
    /\ walk[Len(walk)].what = "end"
    /\ walk[Len(walk)].open = << <<toplevel_dir.str, 0>> >>

\* C26: over the resolver iteration every directory of PATH MAP (with a
\* record beneath it) is closed exactly once, after all records beneath it
\* were processed; a closed directory's tree holds exactly its direct
\* children that are not is_null; a directory with no such child is not
\* emitted and gets is_null = 1; and when the iteration ends the root is the
\* only open directory, with offset 0, so the accounting check never fails.
C26_TreeBuilderDiscipline ==
    [][ResolverRuns /\ DOMAIN priv.paths # {} =>
           /\ "BUG: dir_metadata accounting completely off" \notin Range(priv'.failed)
           /\ priv'.failed = <<>> =>
                  /\ ClosedOnce(DOMAIN priv.paths, priv'.walk)
                  /\ TreesHoldLiveChildren(priv'.paths, priv'.walk)
                  /\ EmptyIsNull(priv.paths, priv'.paths, priv'.walk)
                  /\ EndsAtRoot(priv'.walk)]_vars

----------------------------------------------------------------------------
(* Directory names *)

\* The handle a record at p must hold as its directory_name: the key of p's
\* parent directory in the path map, or the top-level name.
ParentHandle(s, p) == IF HasSlash(p) THEN s.keys[DirOf(p)] ELSE toplevel_dir

\* A directory record made by apply_directory_rename_modifications() for a
\* missing parent: it holds no version of any role.
Synthesized(ci) ==
    ci.dirmask # 0 /\ ci.filemask = 0 /\ \A k \in 1..3 : ci.stages[k] = NullVersion

\* The paths that implicit directory renames moved records to.
NewHomes ==
    {m[5] : m \in {x \in Messages : x[1] \in {"Path updated", "CONFLICT (file location)"}}}

\* C27: once the collection is done, and after any number of implicit
\* directory renames, every record of PATH MAP holds as its directory_name
\* the very key (the same handle) under which its parent directory is stored
\* in PATH MAP, or the top-level name for a top-level path; hence PATH MAP
\* is closed under parent directories and two records with equal directory
\* names hold the same handle.
C27_DirectoryNameIdentity ==
    pc \in {"renames", "process_renames", "entries", "done"} /\ priv.failed = <<>> =>
        /\ DOMAIN priv.keys = DOMAIN priv.paths
        /\ \A p \in DOMAIN priv.paths :
               /\ priv.keys[p].str = p
               /\ HasSlash(p) => DirOf(p) \in DOMAIN priv.paths
               /\ priv.paths[p].directory_name = ParentHandle(priv, p)
        /\ \A p, q \in DOMAIN priv.paths :
               priv.paths[p].directory_name.str = priv.paths[q].directory_name.str
                   => priv.paths[p].directory_name = priv.paths[q].directory_name

\* An implicit directory rename has moved a record to a path whose parent
\* and grandparent directories had to be synthesized.
C27_Witness ==
    /\ priv.failed = <<>>
    /\ pc \in {"process_renames", "entries", "done"}
    /\ \E p \in NewHomes \cap DOMAIN priv.paths :
           /\ HasSlash(p) /\ Synthesized(priv.paths[DirOf(p)])
           /\ HasSlash(DirOf(p)) /\ Synthesized(priv.paths[DirOf(DirOf(p))])

----------------------------------------------------------------------------
(* Path uniquification on its own: a path map, and in args the calls of
   unique_path() made so far, each followed by the insertion of the path it
   returned, as process_entry() does *)

MaxCalls == 2
MaxSuffix == 2

UniquePaths == {f_f, a_x}
UniqueLabels == {branch1, branch2}

\* The keys the path map may hold at the start.
TakenKeys ==
    {ConflictName(f_f, branch1), ConflictName(f_f, branch1) \o <<"_", "0">>,
     ConflictName(f_f, branch2), ConflictName(f_f, branch2) \o <<"_", "0">>,
     f_f \o <<"~">> \o branch2, ConflictName(a_x, branch1)}

UniqueInit ==
    /\ pc = "idle"
    /\ args = <<>>
    /\ options \in OptionSets
    /\ \E taken \in SUBSET TakenKeys :
           priv = [FreshPriv EXCEPT !.paths = [k \in taken |-> ZeroInfo],
                                    !.keys = [k \in taken |-> StrPtr(k, 0)]]
    /\ renaming = NoRenames
    /\ result = [tree |-> null_oid, clean |-> 0, initialized |-> FALSE]
    /\ env \in {e \in Envs : e.merge = "ok"}
    /\ nmerges = 0
    /\ collections = 0
    /\ caller = NoCaller

\* The suffixes the model's decimal conversion covers are not used up.
SuffixLeft(existing, path, branch) ==
    \E n \in 0..MaxSuffix : ConflictName(path, branch) \o <<"_", Digit(n)>> \notin existing

\* a_path = unique_path(&opt->priv->paths, path, branch);
\* strmap_put(&opt->priv->paths, a_path, ci);
UniquePathCall ==
    /\ Len(args) < MaxCalls
    /\ \E path \in UniquePaths, branch \in UniqueLabels :
           /\ SuffixLeft(DOMAIN priv.paths, path, branch)
           /\ LET Put(a_path) ==
                      /\ priv' = PutPath([priv EXCEPT !.nalloc = @ + 1],
                                         StrPtr(a_path, priv.nalloc + 1), ZeroInfo)
                      /\ args' = Append(args, [existing |-> DOMAIN priv.paths, path |-> path,
                                               branch |-> branch, returned |-> a_path])
              IN Put(unique_path(priv.paths, path, branch))
    /\ UNCHANGED <<pc, options, renaming, result, env, nmerges, collections, caller>>

UniqueNext == UniquePathCall

UniqueSpec == UniqueInit /\ [][UniqueNext]_vars

\* path~L_N, with N in decimal.
Numbered(path, branch, n) == ConflictName(path, branch) \o <<"_", Digit(n)>>

\* C28: the path unique_path() returns is not a key of the path map it was
\* given; it is path~L, L being the label with every '/' replaced by '_',
\* if that key is free, and otherwise path~L_N for the smallest N >= 0 whose
\* key is free; two successive relocations of the same path with the same
\* label, each inserted before the next call, get distinct keys.
C28_UniquePath ==
    /\ \A i \in DOMAIN args :
           /\ args[i].returned \notin args[i].existing
           /\ args[i].returned \in DOMAIN priv.paths
           /\ ConflictName(args[i].path, args[i].branch) \notin args[i].existing
                  => args[i].returned = ConflictName(args[i].path, args[i].branch)
           /\ ConflictName(args[i].path, args[i].branch) \in args[i].existing
                  => \E n \in 0..MaxSuffix :
                         /\ args[i].returned = Numbered(args[i].path, args[i].branch, n)
                         /\ \A m \in 0..(n - 1) :
                                Numbered(args[i].path, args[i].branch, m) \in args[i].existing
    /\ \A i, j \in DOMAIN args :
           i < j /\ args[i].path = args[j].path /\ args[i].branch = args[j].branch
               => args[i].returned # args[j].returned

\* The same path was relocated twice with a label that holds a '/', the
\* plain name and suffix 0 being taken: the calls returned the suffixes 1
\* and 2.
C28_Witness ==
    /\ Len(args) = 2
    /\ args[1].path = args[2].path /\ args[1].branch = branch2
    /\ args[2].branch = branch2
    /\ args[1].returned = Numbered(args[1].path, branch2, 1)
    /\ args[2].returned = Numbered(args[1].path, branch2, 2)

----------------------------------------------------------------------------
(* The pick loop of fast-rebase on one options/result pair.  pc is the     *)
(* position of cmd_fast_rebase or of the merge it called, args the trees   *)
(* of the merge in progress, caller.picks the picks made so far;           *)
(* caller.opt_priv tells whether opt->priv is non-NULL, result.initialized *)
(* whether result->priv is, and priv is the engine state either of them    *)
(* points to.                                                              *)

MaxPicks == 2

\* What the tree walk of a collection comes to: traverse_trees() returns 0,
\* or a negative value for a tree that cannot be parsed.
TraverseOutcomes == {"ok", "error"}

\* The trees of 'onto', of the parent of the first picked commit and of the
\* picked commits.
RebaseTrees == {MkTree(Trees[k]) : k \in NextTrees}

RebaseInit ==
    /\ pc = "loop"
    /\ args = <<empty_tree, empty_tree, empty_tree>>
    /\ options \in OptionSets
    /\ priv = FreshPriv
    /\ renaming = NoRenames
    /\ \E head_tree \in RebaseTrees :
           result = [tree |-> head_tree, clean |-> 0, initialized |-> FALSE]
    /\ env \in {e \in Envs : e.merge = "ok"}
    /\ nmerges = 0
    /\ collections = 0
    /\ caller = NoCaller

\* The assertions of merge_start() on the engine state:
\* assert(opt->priv == NULL);
\* assert(!!result->priv == !!result->_properly_initialized);
EntryAssertionsHold ==
    ~caller.opt_priv /\ (result.initialized <=> caller.properly_initialized)

\* One turn of the loop up to the first collection of the merge it calls:
\* merge_start() takes the engine state of the previous result; a tree
\* walk that fails makes merge_ort_nonrecursive_internal() set clean = -1
\* and return at once.
RebaseStart ==
    /\ pc = "loop"
    /\ Len(caller.picks) < MaxPicks
    /\ \E next_tree \in RebaseTrees, first_base \in RebaseTrees, walk \in TraverseOutcomes :
         LET base_tree == IF caller.picks = <<>> THEN first_base
                          ELSE caller.picks[Len(caller.picks)].side2
             Started(s) ==
                 /\ priv' = s
                 /\ args' = <<base_tree, result.tree, next_tree>>
                 /\ result' = [result EXCEPT !.initialized = FALSE,
                                             !.clean = IF walk = "error" THEN -1 ELSE @]
                 /\ pc' = After(s, IF walk = "error" THEN "returned" ELSE "collect")
         IN IF EntryAssertionsHold
            THEN /\ Started(merge_incore_start(priv, result, base_tree, result.tree, next_tree))
                 /\ caller' = [caller EXCEPT !.opt_priv = TRUE]
            ELSE /\ priv' = Fail(priv, "merge_start: assert on opt->priv and result->priv")
                 /\ pc' = "aborted"
                 /\ UNCHANGED <<args, result, caller>>
    /\ nmerges' = nmerges + 1
    /\ collections' = 0
    /\ renaming' = NoRenames
    /\ UNCHANGED <<options, env>>

\* The rest of the turn, the merge having returned: a merge that reached
\* its end handed opt->priv to result->priv; then
\* 'if (!result.clean) die(...)' and create_commit().
RebaseReturn ==
    /\ pc \in {"done", "returned"}
    /\ caller' = [picks |-> Append(caller.picks,
                                   [base |-> args[1], side1 |-> args[2], side2 |-> args[3],
                                    clean |-> result.clean, tree |-> result.tree,
                                    committed |-> result.clean # 0]),
                  opt_priv |-> IF pc = "done" THEN FALSE ELSE caller.opt_priv,
                  properly_initialized |-> pc = "done" \/ caller.properly_initialized]
    /\ pc' = IF result.clean = 0 THEN "died" ELSE "loop"
    /\ UNCHANGED <<args, options, priv, renaming, result, env, nmerges, collections>>

\* The end of the loop: merge_switch_to_result(), which ends in
\* merge_finalize(); both assert(opt->priv == NULL).
RebaseFinish ==
    /\ pc = "loop"
    /\ caller.picks # <<>>
    /\ priv' = IF caller.opt_priv
               THEN Fail(priv, "merge_switch_to_result: assert(opt->priv == NULL)")
               ELSE priv
    /\ pc' = After(priv', "finished")
    /\ UNCHANGED <<args, options, renaming, result, env, nmerges, collections, caller>>

RebaseNext ==
    \/ RebaseStart
    \/ CollectMergeInfo
    \/ DetectRenames
    \/ ProcessRenames
    \/ ProcessEntries
    \/ RebaseReturn
    \/ RebaseFinish

RebaseSpec == RebaseInit /\ [][RebaseNext]_vars

\* C29: over a sequence of merges on one options/result pair, followed by
\* merge_switch_to_result, the entry assertions hold at every call: after
\* every top-level return, one with a fatal error (clean < 0) included,
\* opt->priv is NULL and result->priv is non-NULL exactly when the result is
\* marked initialized.
C29_EngineStateHandedBack ==
    /\ pc \in {"loop", "died"} => EntryAssertionsHold
    /\ "merge_start: assert on opt->priv and result->priv" \notin Range(priv.failed)
    /\ "merge_switch_to_result: assert(opt->priv == NULL)" \notin Range(priv.failed)

\* C30: the pick loop creates a commit for a picked commit only if its merge
\* returned clean = 1; a merge that is unclean or failed (clean < 0) stops
\* the sequence before a commit is created from it; and each merge has the
\* tree of the previous merge's result as side 1.
C30_CommitsOnlyFromCleanMerges ==
    \A i \in DOMAIN caller.picks :
        /\ caller.picks[i].committed => caller.picks[i].clean = 1
        /\ caller.picks[i].clean # 1
               => i = Len(caller.picks) /\ pc \notin {"loop", "finished"}
        /\ i > 1 => caller.picks[i].side1 = caller.picks[i - 1].tree

====
